---- MODULE Spec2Model ----
(***************************************************************************)
(* WarframeOverlay: the energy monitor's poll loop (src/capture.py), the   *)
(* shared AppConfig object it reads (src/config.py) and the controller     *)
(* handlers that write that object from the GUI thread                     *)
(* (src/config_window.py, src/main.py).                                    *)
(*                                                                         *)
(* One AppConfig object is created by load_config and handed, by           *)
(* reference, to ConfigWindow, AlertOverlay and EnergyMonitor; the         *)
(* variable config is that one object.  The worker's local text_color is a *)
(* reference to config.text_color (a TextColor object that no handler ever *)
(* replaces), so the worker's later reads of text_color.r and so on are    *)
(* reads of config.text_color.  CaptureRegion objects are never mutated,   *)
(* only replaced, so the local region is modelled by value.                *)
(*                                                                         *)
(* The overlay window (src/overlay.py) is driven by the worker's signals,  *)
(* which the GUI thread receives queued, and by the test-alert handler;    *)
(* the configuration file is written by save_config and read by            *)
(* load_config (src/config.py).                                            *)
(***************************************************************************)
EXTENDS Integers, Sequences, FiniteSets, TLC

VARIABLES
    script,                 \* what the screen and the recognizer yield, cycle by cycle
    pc,                     \* the worker's position in EnergyMonitor.run
    running,                \* EnergyMonitor._running
    mutex,                  \* EnergyMonitor._mutex: "free", "worker" or "controller"
    config,                 \* the shared AppConfig object
    last_energy,            \* EnergyMonitor._last_energy
    last_below_threshold,   \* EnergyMonitor._last_below_threshold
    region, threshold, polling_rate, alert_mode,   \* locals of run (the snapshot)
    energy,                 \* local of run: the cycle's reading
    events,                 \* the signals emitted so far, in order
    cur,                    \* bookkeeping of the cycle in flight
    hist,                   \* one record per finished cycle
    stopRequested,          \* stop() has been called
    ctl,                    \* the controller's position in its handler
    arg,                    \* the argument of the handler in flight
    spin,                   \* the region spin boxes of the configuration window
    ops,                    \* controller operations begun so far
    session,                \* EnergyMonitor objects created so far
    orphans,                \* threads of monitors the application has dropped
    overlay,                \* the AlertOverlay window, and how far the GUI thread has got with the signals
    disk,                   \* the configuration file
    io,                     \* the calls of the configuration functions and what they returned
    img                     \* a captured buffer, a target colour and the calls of the image functions on them

vars == <<script, pc, running, mutex, config, last_energy, last_below_threshold,
          region, threshold, polling_rate, alert_mode, energy, events, cur, hist,
          stopRequested, ctl, arg, spin, ops, session, orphans, overlay, disk, io, img>>

workerVars == <<pc, running, last_energy, last_below_threshold, region, threshold,
                polling_rate, alert_mode, energy, events, cur, hist>>

\* the application's record of its monitors (main.py: self.monitor)
appVars == <<session, orphans>>

ctlVars == <<ctl, arg, spin, ops, appVars>>

\* the overlay window, the configuration file and the record of the calls
uiVars == <<overlay, disk, io>>

----------------------------------------------------------------------------
(* Optional values: None is <<>>, a value v is <<v>>.                      *)

None == <<>>

Some(v) == <<v>>

IsSome(o) == Len(o) = 1

Val(o) == o[1]

----------------------------------------------------------------------------
(* Bounds of the model.                                                    *)

\* longest script of the exhaustive family
MaxLen == 2

\* controller operations per run
MaxOps == 1

\* monitoring sessions per run
MaxSessions == 2

----------------------------------------------------------------------------
(* Program constants.                                                      *)

\* msleep(1000) after an exception
Backoff == 1000

\* the sentinel _last_energy starts with
NoEnergy == -1

\* monitor.wait(2000) in _stop_monitoring
WaitTimeout == 2000

IMAGE == "image"

NUMBER == "number"

FILTERED == "filtered"

AlertMode == {IMAGE, NUMBER, FILTERED}

----------------------------------------------------------------------------
(* The recognizer's text and its conversion (capture.py:111-114).          *)

DecimalChars == <<"0", "1", "2", "3", "4", "5", "6", "7", "8", "9">>

IsDecimal(c) == \E i \in 1..10 : DecimalChars[i] = c

\* str.isdigit() also accepts digits that are not decimal, such as a
\* superscript two; int() rejects them with ValueError
IsDigitChar(c) == IsDecimal(c) \/ c = "sup2"

IsSpace(c) == c \in {" ", "\n"}

DigitVal(c) == (CHOOSE i \in 1..10 : DecimalChars[i] = c) - 1

RECURSIVE LStrip(_)
LStrip(t) == IF t # <<>> /\ IsSpace(Head(t)) THEN LStrip(Tail(t)) ELSE t

RECURSIVE RStrip(_)
RStrip(t) ==
    IF t # <<>> /\ IsSpace(t[Len(t)]) THEN RStrip(SubSeq(t, 1, Len(t) - 1)) ELSE t

strip(t) == RStrip(LStrip(t))

isdigit(t) == t # <<>> /\ \A i \in 1..Len(t) : IsDigitChar(t[i])

\* int(text) raises ValueError
IntRaises(t) == \E i \in 1..Len(t) : ~IsDecimal(t[i])

RECURSIVE IntOf(_)
IntOf(t) ==
    IF t = <<>> THEN 0 ELSE 10 * IntOf(SubSeq(t, 1, Len(t) - 1)) + DigitVal(t[Len(t)])


\* text = image_to_string(...).strip(); the reading of lines 109-117:
\* an int when the text is non-empty and isdigit() and int() succeeds, else None
Recognize(o) ==
    IF o.k = "ocr_raise" THEN None
    ELSE LET text == strip(o.t) IN
         IF text # <<>> /\ isdigit(text)
         THEN IF IntRaises(text) THEN None ELSE Some(IntOf(text))
         ELSE None

----------------------------------------------------------------------------
(* Scripts: per cycle, what the capture and the recognizer do.             *)
(* k = "text": the grab succeeds and the recognizer returns t;             *)
(* k = "ocr_raise": the recognizer call raises; k = "grab_fail": the grab  *)
(* raises; k = "pre_fail": the classification raises; k = "grab_hang": the  *)
(* grab never returns.                                                     *)

Txt(t) == [k |-> "text", t |-> t]

OcrRaise == [k |-> "ocr_raise", t |-> <<>>]

GrabFail == [k |-> "grab_fail", t |-> <<>>]

PreFail == [k |-> "pre_fail", t |-> <<>>]

GrabHang == [k |-> "grab_hang", t |-> <<>>]

T30 == Txt(<<"3", "0">>)

T40 == Txt(<<"4", "0">>)

T50 == Txt(<<"5", "0">>)

T55 == Txt(<<"5", "5">>)

T60 == Txt(<<"6", "0">>)

T62 == Txt(<<"6", "2">>)

\* the recognized sequence [50, 50, 62, 62, 40]
EnergyScript == <<T50, T50, T62, T62, T40>>

\* the recognized sequence [60, 40, 40, 55, 30]
ThresholdScript == <<T60, T40, T40, T55, T30>>

\* hand-picked scripts: every kind of recognition failure between two readings,
\* whitespace and leading zeros, failures of the capture and the classification
EdgeScripts ==
    { <<T40, Txt(<<>>), T40>>,
      <<T40, Txt(<<"4", "a">>), T60>>,
      <<T60, Txt(<<"sup2">>), T60>>,
      <<T40, OcrRaise, T40>>,
      <<Txt(<<" ", "4", "0", "\n">>), Txt(<<"0", "4", "0">>), T60>>,
      <<Txt(<<" ", "\n">>), T50, Txt(<<"0">>)>>,
      <<T60, T40, GrabFail, T40, T60>>,
      <<T40, PreFail, GrabFail, T40>>,
      <<GrabFail, T40, T40>> }

Alphabet == {T40, T60, GrabFail}

RECURSIVE SeqsUpTo(_)
SeqsUpTo(n) ==
    IF n = 0 THEN {<<>>}
    ELSE LET S == SeqsUpTo(n - 1) IN
         S \cup {Append(s, a) : s \in {t \in S : Len(t) = n - 1}, a \in Alphabet}

Scripts == {EnergyScript, ThresholdScript} \cup EdgeScripts \cup (SeqsUpTo(MaxLen) \ {<<>>})

----------------------------------------------------------------------------
(* Configuration values (config.py:15-62, the dataclass defaults).         *)

DefaultRegion == [x |-> 1800, y |-> 1030, width |-> 60, height |-> 35]

DefaultColor == [r |-> 255, g |-> 255, b |-> 255, tolerance |-> 30, skew |-> 0]

Thresholds == {50, 65}

PollingRates == {100, 250}

Tolerances == {30, 5}

\* skew in hundredths
Skews == {0, 5}

PickedColors == {[r |-> 10, g |-> 20, b |-> 30]}

SelectedRegions ==
    {[x |-> 100, y |-> 200, width |-> 40, height |-> 20],
     [x |-> 100, y |-> 200, width |-> 8, height |-> 20]}

\* the sides of the captured buffers
MaxSide == 3

\* calls of each image function in one run
MaxCalls == 2

\* channel values on both sides of tolerance 30 and 31 from 255 and from 0
ImgLevels == {0, 224, 225, 255}

ImgTargets == {[r |-> 255, g |-> 255, b |-> 255], [r |-> 0, g |-> 225, b |-> 255]}

ImgTolerances == {0, 30, 31}

\* skew in hundredths
ImgSkews == {0, 50, -50}

\* what the conversion of a NaN to uint8 may yield
NanBytes == {0, 255}

\* the sub-rectangles of a buffer MaxSide wide and MaxSide - 1 high
Rects ==
    { q \in [x0 : 0..(MaxSide - 1), x1 : 0..(MaxSide - 1),
             y0 : 0..(MaxSide - 2), y1 : 0..(MaxSide - 2)] : q.x0 <= q.x1 /\ q.y0 <= q.y1 }

----------------------------------------------------------------------------
(* The configuration and its file (config.py:45-175).                      *)
(*                                                                         *)
(* A value of a dictionary, as json.load yields it and json.dump takes it, *)
(* carries its type: [int |-> 50], [str |-> "image"], [dict |-> f] with f  *)
(* a function on the keys.  The fields of the configuration objects hold   *)
(* the bare values.  alert_opacity, like skew, is in hundredths.           *)

PyInt(n) == [int |-> n]

PyFloat(n) == [float |-> n]

PyStr(s) == [str |-> s]

PyBool(b) == [bool |-> b]

PyDict(f) == [dict |-> f]

PyList(s) == [list |-> s]

\* type(j)
TypeOf(j) == CHOOSE t \in DOMAIN j : TRUE

\* the bare value
Raw(j) ==
    CASE TypeOf(j) = "int" -> j.int [] TypeOf(j) = "float" -> j.float
      [] TypeOf(j) = "str" -> j.str [] TypeOf(j) = "bool" -> j.bool
      [] TypeOf(j) = "dict" -> j.dict [] TypeOf(j) = "list" -> j.list

\* AlertPosition(), AlertSize() and the sizes of the default factories
DefaultPosition == [x |-> 960, y |-> 540]

DefaultSize == [width |-> 200, height |-> 200]

DefaultNumberSize == [width |-> 150, height |-> 100]

DefaultFilteredSize == [width |-> 100, height |-> 60]

\* the path of an image the user has chosen
AlertImage == "alert.png"

\* AppConfig()
DefaultConfig ==
    [capture_region |-> DefaultRegion, text_color |-> DefaultColor,
     threshold |-> 50, polling_rate_ms |-> 100, alert_mode |-> IMAGE,
     alert_image_path |-> "",
     image_position |-> DefaultPosition, image_size |-> DefaultSize,
     number_position |-> DefaultPosition, number_size |-> DefaultNumberSize,
     filtered_position |-> DefaultPosition, filtered_size |-> DefaultFilteredSize,
     alert_opacity |-> 100, monitoring_active |-> FALSE, tesseract_path |-> ""]

\* dataclasses.asdict of a CaptureRegion, TextColor, AlertPosition or AlertSize
asdict(o) ==
    PyDict([k \in DOMAIN o |-> IF k = "skew" THEN PyFloat(o[k]) ELSE PyInt(o[k])])

\* AlertMode.value
ModeValue(m) ==
    CASE m = IMAGE -> "image" [] m = NUMBER -> "number" [] m = FILTERED -> "filtered"

\* AppConfig.to_dict
to_dict(c) ==
    PyDict([capture_region |-> asdict(c.capture_region),
            text_color |-> asdict(c.text_color),
            threshold |-> PyInt(c.threshold),
            polling_rate_ms |-> PyInt(c.polling_rate_ms),
            alert_mode |-> PyStr(ModeValue(c.alert_mode)),
            alert_image_path |-> PyStr(c.alert_image_path),
            image_position |-> asdict(c.image_position),
            image_size |-> asdict(c.image_size),
            number_position |-> asdict(c.number_position),
            number_size |-> asdict(c.number_size),
            filtered_position |-> asdict(c.filtered_position),
            filtered_size |-> asdict(c.filtered_size),
            alert_opacity |-> PyFloat(c.alert_opacity),
            monitoring_active |-> PyBool(c.monitoring_active),
            tesseract_path |-> PyStr(c.tesseract_path)])

\* "key" in data: a TypeError for a number, a search of the elements for a list
InRaises(data) == TypeOf(data) \in {"int", "float", "bool"}

In(key, data) == TypeOf(data) = "dict" /\ key \in DOMAIN data.dict

\* Cls(**j) for a dataclass with the defaults d: a TypeError unless j is a
\* mapping whose keys are fields of the class; absent fields take the defaults,
\* and no value is checked
NewRaises(d, j) == TypeOf(j) # "dict" \/ ~(DOMAIN j.dict \subseteq DOMAIN d)

New(d, j) == [k \in DOMAIN d |-> IF k \in DOMAIN j.dict THEN Raw(j.dict[k]) ELSE d[k]]

\* AlertMode(v): the member with that value, a ValueError if there is none
IsModeValue(j) == TypeOf(j) = "str" /\ j.str \in {"image", "number", "filtered"}

AlertModeOf(j) ==
    CASE j.str = "image" -> IMAGE [] j.str = "number" -> NUMBER [] j.str = "filtered" -> FILTERED

\* the statements of from_dict in order: the key each reads, the field it
\* writes, and what it does with the value
FromDictSteps ==
    << [key |-> "capture_region", field |-> "capture_region", do |-> "new"],
       [key |-> "text_color", field |-> "text_color", do |-> "new"],
       [key |-> "threshold", field |-> "threshold", do |-> "copy"],
       [key |-> "polling_rate_ms", field |-> "polling_rate_ms", do |-> "copy"],
       [key |-> "alert_mode", field |-> "alert_mode", do |-> "enum"],
       [key |-> "alert_image_path", field |-> "alert_image_path", do |-> "copy"],
       [key |-> "image_position", field |-> "image_position", do |-> "new"],
       [key |-> "image_size", field |-> "image_size", do |-> "new"],
       [key |-> "number_position", field |-> "number_position", do |-> "new"],
       [key |-> "number_size", field |-> "number_size", do |-> "new"],
       [key |-> "filtered_position", field |-> "filtered_position", do |-> "new"],
       [key |-> "filtered_size", field |-> "filtered_size", do |-> "new"],
       [key |-> "alert_position", field |-> "image_position", do |-> "legacy"],
       [key |-> "alert_size", field |-> "image_size", do |-> "legacy"],
       [key |-> "alert_opacity", field |-> "alert_opacity", do |-> "copy"],
       [key |-> "monitoring_active", field |-> "monitoring_active", do |-> "copy"],
       [key |-> "tesseract_path", field |-> "tesseract_path", do |-> "copy"] >>

\* a migration of the legacy keys that does not look for the keys that replaced them
TakenWhenPresent(s, data) == In(s.key, data)

\* statement s runs its assignment: its key is in data, and for a legacy key
\* the key of the field it migrates to is not
Taken(s, data) ==
    /\ In(s.key, data)
    /\ s.do = "legacy" => ~In(s.field, data)

\* the exception statement s raises, "" if none
StepRaises(s, data) ==
    IF ~Taken(s, data) THEN ""
    ELSE IF s.do \in {"new", "legacy"} /\ NewRaises(DefaultConfig[s.field], data.dict[s.key])
         THEN "TypeError"
    ELSE IF s.do = "enum" /\ ~IsModeValue(data.dict[s.key]) THEN "ValueError"
    ELSE ""

\* the value statement s assigns
StepValue(s, data) ==
    IF s.do \in {"new", "legacy"} THEN New(DefaultConfig[s.field], data.dict[s.key])
    ELSE IF s.do = "enum" THEN AlertModeOf(data.dict[s.key])
    ELSE Raw(data.dict[s.key])

\* config after the first n statements, or the exception one of them raised
RECURSIVE FromDictUpTo(_, _)
FromDictUpTo(data, n) ==
    IF n = 0 THEN [raised |-> "", config |-> DefaultConfig]
    ELSE LET before == FromDictUpTo(data, n - 1)
             s == FromDictSteps[n]
         IN  IF before.raised # "" THEN before
             ELSE IF StepRaises(s, data) # "" THEN [raised |-> StepRaises(s, data), config |-> before.config]
             ELSE IF Taken(s, data)
                  THEN [raised |-> "", config |-> [before.config EXCEPT ![s.field] = StepValue(s, data)]]
             ELSE before

\* AppConfig.from_dict: the configuration, or the exception raised
from_dict(data) ==
    IF InRaises(data) THEN [raised |-> "TypeError", config |-> DefaultConfig]
    ELSE FromDictUpTo(data, Len(FromDictSteps))

\* the configuration file: missing, or a text that is JSON (data) or is not
NoFile == [state |-> "missing"]

Garbage == [state |-> "text", json |-> FALSE]

Json(data) == [state |-> "text", json |-> TRUE, data |-> data]

\* save_config
save_config(c) == Json(to_dict(c))

\* load_config: the configuration returned, or the exception that reaches the
\* caller; json.load raises JSONDecodeError on a text that is not JSON
load_config(file) ==
    IF file.state = "missing" THEN [raised |-> "", config |-> DefaultConfig]
    ELSE IF ~file.json THEN [raised |-> "", config |-> DefaultConfig]
    ELSE LET r == from_dict(file.data) IN
         IF r.raised \in {"JSONDecodeError", "KeyError", "TypeError"}
         THEN [raised |-> "", config |-> DefaultConfig]
         ELSE r

----------------------------------------------------------------------------
(* The alert overlay (overlay.py).  Its config attribute is the shared     *)
(* AppConfig object.  The text of its label is a sequence of characters.   *)

DigitChars == <<"0", "1", "2", "3", "4", "5", "6", "7", "8", "9">>

\* str(n) of an int n >= 0
RECURSIVE str(_)
str(n) == IF n < 10 THEN <<DigitChars[n + 1]>> ELSE Append(str(n \div 10), DigitChars[(n % 10) + 1])

\* _apply_config, overlay.py:46-61 with _setup_number_display, line 76: in
\* NUMBER mode the label is set to _current_energy
apply_config(o, c) ==
    IF c.alert_mode = NUMBER THEN [o EXCEPT !.text = str(o.current_energy)] ELSE o

\* update_energy, overlay.py:96-100
update_energy(o, c, e) ==
    [o EXCEPT !.current_energy = e,
              !.text = IF c.alert_mode = NUMBER /\ o.visible THEN str(e) ELSE @]

\* show_alert, overlay.py:146-149
show_alert(o) == IF ~o.visible THEN [o EXCEPT !.visible = TRUE] ELSE o

\* hide_alert, overlay.py:151-154
hide_alert(o) == IF o.visible THEN [o EXCEPT !.visible = FALSE] ELSE o

\* AlertOverlay(config), overlay.py:15-21: hidden, _current_energy 0, an empty
\* label, then _apply_config; no signal delivered, no timer pending
NewOverlay(c) ==
    apply_config([visible |-> FALSE, current_energy |-> 0, text |-> <<>>,
                  delivered |-> 0, timers |-> 0], c)

----------------------------------------------------------------------------
(* Bookkeeping.                                                            *)

NoUse == [skew |-> None, r |-> None, g |-> None, b |-> None, tolerance |-> None]

\* the cycle in flight: the detector's state when the cycle began, the colour
\* the snapshot saw, the colour fields and the region the pipeline then read,
\* the mask the classification made (hard: _preprocess_image, soft:
\* _preprocess_for_display), the mask the recognizer was called on, and whether
\* stop() had been called when the cycle began
\* a cycle that has not begun: no stage of the pipeline has run
NoCur ==
    [preE |-> NoEnergy, preB |-> None, snapColor |-> None, used |-> NoUse,
     grabbed |-> None, recognized |-> 0, mask |-> None, recognizedOn |-> None,
     afterStop |-> FALSE]

NewCur ==
    [NoCur EXCEPT !.preE = last_energy, !.preB = last_below_threshold,
                  !.afterStop = stopRequested]

\* the number of the cycle in flight
Cycle == Len(hist) + 1

Event(type, payload) ==
    [type |-> type, payload |-> payload, cycle |-> Cycle, session |-> session]

Finished(failed, slept) ==
    [failed |-> failed, sleep |-> slept,
     reading |-> IF failed THEN None ELSE energy,
     thr |-> threshold, poll |-> polling_rate, mode |-> alert_mode, region |-> region,
     preE |-> cur.preE, preB |-> cur.preB,
     postE |-> last_energy, postB |-> last_below_threshold,
     snapColor |-> cur.snapColor, used |-> cur.used, grabbed |-> cur.grabbed,
     recognized |-> cur.recognized, mask |-> cur.mask, recognizedOn |-> cur.recognizedOn,
     afterStop |-> cur.afterStop, stopped |-> stopRequested,
     livePoll |-> config.polling_rate_ms, session |-> session]

\* the script's entry for the cycle in flight
Outcome == script[Cycle]

----------------------------------------------------------------------------
(* The worker: EnergyMonitor.run and what it calls.                        *)

\* run(), lines 33-38: the thread's first statements
W_Run ==
    /\ pc = "run"
    /\ running' = TRUE
    /\ pc' = "while"
    /\ UNCHANGED <<img, uiVars, script, mutex, config, last_energy, last_below_threshold, region,
                   threshold, polling_rate, alert_mode, energy, events, cur, hist,
                   stopRequested, ctlVars>>

\* line 40, flag set: the next cycle begins (as long as the script lasts)
W_While ==
    /\ pc = "while"
    /\ running
    /\ Len(hist) < Len(script)
    /\ cur' = NewCur
    /\ pc' = "lock"
    /\ UNCHANGED <<img, uiVars, script, running, mutex, config, last_energy, last_below_threshold,
                   region, threshold, polling_rate, alert_mode, energy, events, hist,
                   stopRequested, ctlVars>>

\* line 40, flag clear, and lines 82-83: the worker leaves the loop
W_Exit ==
    /\ pc = "while"
    /\ ~running
    /\ pc' = "done"
    /\ UNCHANGED <<img, uiVars, script, running, mutex, config, last_energy, last_below_threshold,
                   region, threshold, polling_rate, alert_mode, energy, events, cur,
                   hist, stopRequested, ctlVars>>

\* line 42
W_Lock ==
    /\ pc = "lock"
    /\ mutex = "free"
    /\ mutex' = "worker"
    /\ pc' = "rd_region"
    /\ UNCHANGED <<img, uiVars, script, running, config, last_energy, last_below_threshold, region,
                   threshold, polling_rate, alert_mode, energy, events, cur, hist,
                   stopRequested, ctlVars>>

\* line 43
W_ReadRegion ==
    /\ pc = "rd_region"
    /\ region' = config.capture_region
    /\ pc' = "rd_threshold"
    /\ UNCHANGED <<img, uiVars, script, running, mutex, config, last_energy, last_below_threshold,
                   threshold, polling_rate, alert_mode, energy, events, cur, hist,
                   stopRequested, ctlVars>>

\* line 44
W_ReadThreshold ==
    /\ pc = "rd_threshold"
    /\ threshold' = config.threshold
    /\ pc' = "rd_polling"
    /\ UNCHANGED <<img, uiVars, script, running, mutex, config, last_energy, last_below_threshold,
                   region, polling_rate, alert_mode, energy, events, cur, hist,
                   stopRequested, ctlVars>>

\* line 45
W_ReadPolling ==
    /\ pc = "rd_polling"
    /\ polling_rate' = config.polling_rate_ms
    /\ pc' = "rd_color"
    /\ UNCHANGED <<img, uiVars, script, running, mutex, config, last_energy, last_below_threshold,
                   region, threshold, alert_mode, energy, events, cur, hist,
                   stopRequested, ctlVars>>

\* line 46: text_color becomes a reference to the TextColor object; snapColor
\* records the fields that object has at this moment
W_ReadColor ==
    /\ pc = "rd_color"
    /\ cur' = [cur EXCEPT !.snapColor = Some(config.text_color)]
    /\ pc' = "rd_mode"
    /\ UNCHANGED <<img, uiVars, script, running, mutex, config, last_energy, last_below_threshold,
                   region, threshold, polling_rate, alert_mode, energy, events, hist,
                   stopRequested, ctlVars>>

\* line 47
W_ReadMode ==
    /\ pc = "rd_mode"
    /\ alert_mode' = config.alert_mode
    /\ pc' = "unlock"
    /\ UNCHANGED <<img, uiVars, script, running, mutex, config, last_energy, last_below_threshold,
                   region, threshold, polling_rate, energy, events, cur, hist,
                   stopRequested, ctlVars>>

\* a worker that goes on to the capture without releasing the mutex
W_UnlockSkipped ==
    /\ pc = "unlock"
    /\ mutex' = mutex
    /\ pc' = "grab"
    /\ UNCHANGED <<img, uiVars, script, running, config, last_energy, last_below_threshold, region,
                   threshold, polling_rate, alert_mode, energy, events, cur, hist,
                   stopRequested, ctlVars>>

\* line 48
W_Unlock ==
    /\ pc = "unlock"
    /\ mutex' = "free"
    /\ pc' = "grab"
    /\ UNCHANGED <<img, uiVars, script, running, config, last_energy, last_below_threshold, region,
                   threshold, polling_rate, alert_mode, energy, events, cur, hist,
                   stopRequested, ctlVars>>

\* a grab that looks at the flag and abandons the cycle when it is clear
W_GrabCancellable ==
    /\ pc = "grab"
    /\ cur' = [cur EXCEPT !.grabbed = Some(region)]
    /\ pc' = IF ~running THEN "done"
             ELSE IF Outcome.k = "grab_fail" THEN "except"
             ELSE IF Outcome.k = "grab_hang" THEN "hung"
             ELSE "pre_skew"
    /\ UNCHANGED <<img, uiVars, script, running, mutex, config, last_energy, last_below_threshold,
                   region, threshold, polling_rate, alert_mode, energy, events, hist,
                   stopRequested, ctlVars>>

\* _capture_and_read, lines 86-98: the grab of the snapshot's region; a failure
\* of the grab is an exception that reaches the handler of line 78; a grab that
\* never returns leaves the thread inside the call
W_Grab ==
    /\ pc = "grab"
    /\ cur' = [cur EXCEPT !.grabbed = Some(region)]
    /\ pc' = IF Outcome.k = "grab_fail" THEN "except"
             ELSE IF Outcome.k = "grab_hang" THEN "hung"
             ELSE "pre_skew"
    /\ UNCHANGED <<img, uiVars, script, running, mutex, config, last_energy, last_below_threshold,
                   region, threshold, polling_rate, alert_mode, energy, events, hist,
                   stopRequested, ctlVars>>

\* the attribute reads of _preprocess_image (lines 151-159) and of
\* _preprocess_for_display (lines 185-191), which line 101 chooses between:
\* both read text_color.skew, then r, g, b, then tolerance, through the reference

\* lines 151-152 / 185-186
W_PreSkew ==
    /\ pc = "pre_skew"
    /\ cur' = [cur EXCEPT !.used.skew = Some(config.text_color.skew)]
    /\ pc' = "pre_r"
    /\ UNCHANGED <<img, uiVars, script, running, mutex, config, last_energy, last_below_threshold,
                   region, threshold, polling_rate, alert_mode, energy, events, hist,
                   stopRequested, ctlVars>>

\* line 158 / 190, first load
W_PreR ==
    /\ pc = "pre_r"
    /\ cur' = [cur EXCEPT !.used.r = Some(config.text_color.r)]
    /\ pc' = "pre_g"
    /\ UNCHANGED <<img, uiVars, script, running, mutex, config, last_energy, last_below_threshold,
                   region, threshold, polling_rate, alert_mode, energy, events, hist,
                   stopRequested, ctlVars>>

\* line 158 / 190, second load
W_PreG ==
    /\ pc = "pre_g"
    /\ cur' = [cur EXCEPT !.used.g = Some(config.text_color.g)]
    /\ pc' = "pre_b"
    /\ UNCHANGED <<img, uiVars, script, running, mutex, config, last_energy, last_below_threshold,
                   region, threshold, polling_rate, alert_mode, energy, events, hist,
                   stopRequested, ctlVars>>

\* line 158 / 190, third load
W_PreB ==
    /\ pc = "pre_b"
    /\ cur' = [cur EXCEPT !.used.b = Some(config.text_color.b)]
    /\ pc' = "pre_tol"
    /\ UNCHANGED <<img, uiVars, script, running, mutex, config, last_energy, last_below_threshold,
                   region, threshold, polling_rate, alert_mode, energy, events, hist,
                   stopRequested, ctlVars>>

\* a classification that hands every mask to the recognizer
W_PreTolAlwaysOcr ==
    /\ pc = "pre_tol"
    /\ cur' = [cur EXCEPT !.used.tolerance = Some(config.text_color.tolerance),
                          !.mask = IF Outcome.k = "pre_fail" THEN None
                                   ELSE IF alert_mode = FILTERED THEN Some("soft")
                                   ELSE Some("hard")]
    /\ pc' = IF Outcome.k = "pre_fail" THEN "except" ELSE "ocr"
    /\ energy' = energy
    /\ UNCHANGED <<img, uiVars, script, running, mutex, config, last_energy, last_below_threshold,
                   region, threshold, polling_rate, alert_mode, events, hist,
                   stopRequested, ctlVars>>

\* line 159 / 191 and the classification itself (lines 163-180 / 194-218); in
\* FILTERED mode line 103 returns (None, display_img), else the recognizer is next
W_PreTol ==
    /\ pc = "pre_tol"
    /\ cur' = [cur EXCEPT !.used.tolerance = Some(config.text_color.tolerance),
                          !.mask = IF Outcome.k = "pre_fail" THEN None
                                   ELSE IF alert_mode = FILTERED THEN Some("soft")
                                   ELSE Some("hard")]
    /\ IF Outcome.k = "pre_fail"
       THEN pc' = "except" /\ energy' = energy
       ELSE IF alert_mode = FILTERED
            THEN pc' = "emit_filtered" /\ energy' = None
            ELSE pc' = "ocr" /\ energy' = energy
    /\ UNCHANGED <<img, uiVars, script, running, mutex, config, last_energy, last_below_threshold,
                   region, threshold, polling_rate, alert_mode, events, hist,
                   stopRequested, ctlVars>>

\* a recognizer whose exception is not caught
W_RecognizeNoCatch ==
    /\ pc = "ocr"
    /\ cur' = [cur EXCEPT !.recognized = @ + 1, !.recognizedOn = cur.mask]
    /\ IF Outcome.k = "ocr_raise" \/ (isdigit(strip(Outcome.t)) /\ IntRaises(strip(Outcome.t)))
       THEN pc' = "except" /\ energy' = energy
       ELSE pc' = "emit_filtered" /\ energy' = Recognize(Outcome)
    /\ UNCHANGED <<img, uiVars, script, running, mutex, config, last_energy, last_below_threshold,
                   region, threshold, polling_rate, alert_mode, events, hist,
                   stopRequested, ctlVars>>

\* lines 108-117: the recognizer call and the conversion of its text, every
\* exception caught
W_Recognize ==
    /\ pc = "ocr"
    /\ cur' = [cur EXCEPT !.recognized = @ + 1, !.recognizedOn = cur.mask]
    /\ energy' = Recognize(Outcome)
    /\ pc' = "emit_filtered"
    /\ UNCHANGED <<img, uiVars, script, running, mutex, config, last_energy, last_below_threshold,
                   region, threshold, polling_rate, alert_mode, events, hist,
                   stopRequested, ctlVars>>

\* a frame emitted in every mode
W_EmitFilteredAlways ==
    /\ pc = "emit_filtered"
    /\ events' = Append(events, Event("FilteredFrame", None))
    /\ pc' = "energy"
    /\ UNCHANGED <<img, uiVars, script, running, mutex, config, last_energy, last_below_threshold,
                   region, threshold, polling_rate, alert_mode, energy, cur, hist,
                   stopRequested, ctlVars>>

\* a frame emitted after the detector's event
W_EmitFilteredAfterDetect ==
    /\ pc = "emit_filtered"
    /\ IF alert_mode = FILTERED
       THEN /\ events' = events \o <<Event("ThresholdCrossed", Some(TRUE)),
                                     Event("FilteredFrame", None)>>
            /\ last_below_threshold' = Some(TRUE)
       ELSE UNCHANGED <<events, last_below_threshold>>
    /\ pc' = "energy"
    /\ UNCHANGED <<img, uiVars, script, running, mutex, config, last_energy, region, threshold,
                   polling_rate, alert_mode, energy, cur, hist, stopRequested, ctlVars>>

\* lines 54-55 (filtered_img is never None when _capture_and_read returns)
W_EmitFiltered ==
    /\ pc = "emit_filtered"
    /\ events' = IF alert_mode = FILTERED
                 THEN Append(events, Event("FilteredFrame", None))
                 ELSE events
    /\ pc' = "energy"
    /\ UNCHANGED <<img, uiVars, script, running, mutex, config, last_energy, last_below_threshold,
                   region, threshold, polling_rate, alert_mode, energy, cur, hist,
                   stopRequested, ctlVars>>

\* an energy detector that emits on every reading
W_DetectEnergyAlways ==
    /\ pc = "energy"
    /\ IF IsSome(energy)
       THEN /\ events' = Append(events, Event("EnergyChanged", energy))
            /\ last_energy' = Val(energy)
       ELSE UNCHANGED <<events, last_energy>>
    /\ pc' = "threshold"
    /\ UNCHANGED <<img, uiVars, script, running, mutex, config, last_below_threshold, region,
                   threshold, polling_rate, alert_mode, energy, cur, hist,
                   stopRequested, ctlVars>>

\* an energy detector that forgets to store the value it reported
W_DetectEnergyNoStore ==
    /\ pc = "energy"
    /\ IF IsSome(energy) /\ Val(energy) # last_energy
       THEN /\ events' = Append(events, Event("EnergyChanged", energy))
            /\ last_energy' = last_energy
       ELSE UNCHANGED <<events, last_energy>>
    /\ pc' = "threshold"
    /\ UNCHANGED <<img, uiVars, script, running, mutex, config, last_below_threshold, region,
                   threshold, polling_rate, alert_mode, energy, cur, hist,
                   stopRequested, ctlVars>>

\* lines 57-61
W_DetectEnergy ==
    /\ pc = "energy"
    /\ IF IsSome(energy) /\ Val(energy) # last_energy
       THEN /\ events' = Append(events, Event("EnergyChanged", energy))
            /\ last_energy' = Val(energy)
       ELSE UNCHANGED <<events, last_energy>>
    /\ pc' = "threshold"
    /\ UNCHANGED <<img, uiVars, script, running, mutex, config, last_below_threshold, region,
                   threshold, polling_rate, alert_mode, energy, cur, hist,
                   stopRequested, ctlVars>>

\* the comparison turned round
BelowInverted(e, t) == e > t

\* a reading equal to the threshold counted as below
BelowOrEqual(e, t) == e <= t

\* line 64
Below(e, t) == e < t

\* a threshold detector that forgets to store the side it reported
W_DetectThresholdNoStore ==
    /\ pc = "threshold"
    /\ IF IsSome(energy)
       THEN LET below_threshold == Val(energy) < threshold IN
            IF Some(below_threshold) # last_below_threshold
            THEN /\ events' = Append(events, Event("ThresholdCrossed", Some(below_threshold)))
                 /\ last_below_threshold' = last_below_threshold
            ELSE UNCHANGED <<events, last_below_threshold>>
       ELSE IF alert_mode = FILTERED /\ last_below_threshold # Some(TRUE)
            THEN /\ events' = Append(events, Event("ThresholdCrossed", Some(TRUE)))
                 /\ last_below_threshold' = last_below_threshold
            ELSE UNCHANGED <<events, last_below_threshold>>
    /\ pc' = "sleep"
    /\ UNCHANGED <<img, uiVars, script, running, mutex, config, last_energy, region, threshold,
                   polling_rate, alert_mode, energy, cur, hist, stopRequested, ctlVars>>

\* a threshold detector that reports every FILTERED cycle
W_DetectThresholdFlood ==
    /\ pc = "threshold"
    /\ IF IsSome(energy)
       THEN LET below_threshold == Val(energy) < threshold IN
            IF Some(below_threshold) # last_below_threshold
            THEN /\ events' = Append(events, Event("ThresholdCrossed", Some(below_threshold)))
                 /\ last_below_threshold' = Some(below_threshold)
            ELSE UNCHANGED <<events, last_below_threshold>>
       ELSE IF alert_mode = FILTERED
            THEN /\ events' = Append(events, Event("ThresholdCrossed", Some(TRUE)))
                 /\ last_below_threshold' = Some(TRUE)
            ELSE UNCHANGED <<events, last_below_threshold>>
    /\ pc' = "sleep"
    /\ UNCHANGED <<img, uiVars, script, running, mutex, config, last_energy, region, threshold,
                   polling_rate, alert_mode, energy, cur, hist, stopRequested, ctlVars>>

\* a threshold detector that compares with the threshold the configuration
\* holds now instead of the one the cycle's snapshot copied
W_DetectThresholdLive ==
    /\ pc = "threshold"
    /\ IF IsSome(energy)
       THEN LET below_threshold == Below(Val(energy), config.threshold) IN
            IF Some(below_threshold) # last_below_threshold
            THEN /\ events' = Append(events, Event("ThresholdCrossed", Some(below_threshold)))
                 /\ last_below_threshold' = Some(below_threshold)
            ELSE UNCHANGED <<events, last_below_threshold>>
       ELSE IF alert_mode = FILTERED /\ last_below_threshold # Some(TRUE)
            THEN /\ events' = Append(events, Event("ThresholdCrossed", Some(TRUE)))
                 /\ last_below_threshold' = Some(TRUE)
            ELSE UNCHANGED <<events, last_below_threshold>>
    /\ pc' = "sleep"
    /\ UNCHANGED <<img, uiVars, script, running, mutex, config, last_energy, region, threshold,
                   polling_rate, alert_mode, energy, cur, hist, stopRequested, ctlVars>>

\* lines 57 and 63-73
W_DetectThreshold ==
    /\ pc = "threshold"
    /\ IF IsSome(energy)
       THEN LET below_threshold == Below(Val(energy), threshold) IN
            IF Some(below_threshold) # last_below_threshold
            THEN /\ events' = Append(events, Event("ThresholdCrossed", Some(below_threshold)))
                 /\ last_below_threshold' = Some(below_threshold)
            ELSE UNCHANGED <<events, last_below_threshold>>
       ELSE IF alert_mode = FILTERED /\ last_below_threshold # Some(TRUE)
            THEN /\ events' = Append(events, Event("ThresholdCrossed", Some(TRUE)))
                 /\ last_below_threshold' = Some(TRUE)
            ELSE UNCHANGED <<events, last_below_threshold>>
    /\ pc' = "sleep"
    /\ UNCHANGED <<img, uiVars, script, running, mutex, config, last_energy, region, threshold,
                   polling_rate, alert_mode, energy, cur, hist, stopRequested, ctlVars>>

\* a sleep of the interval the configuration holds now
W_SleepLive ==
    /\ pc = "sleep"
    /\ hist' = Append(hist, Finished(FALSE, config.polling_rate_ms))
    /\ pc' = "while"
    /\ UNCHANGED <<img, uiVars, script, running, mutex, config, last_energy, last_below_threshold,
                   region, threshold, polling_rate, alert_mode, energy, events, cur,
                   stopRequested, ctlVars>>

\* line 76: the cycle ends with the snapshot's polling interval
W_Sleep ==
    /\ pc = "sleep"
    /\ hist' = Append(hist, Finished(FALSE, polling_rate))
    /\ pc' = "while"
    /\ UNCHANGED <<img, uiVars, script, running, mutex, config, last_energy, last_below_threshold,
                   region, threshold, polling_rate, alert_mode, energy, events, cur,
                   stopRequested, ctlVars>>

\* an exception that ends the loop
W_ExceptExit ==
    /\ pc = "except"
    /\ events' = Append(events, Event("RecoverableError", None))
    /\ hist' = Append(hist, Finished(TRUE, 0))
    /\ pc' = "done"
    /\ UNCHANGED <<img, uiVars, script, running, mutex, config, last_energy, last_below_threshold,
                   region, threshold, polling_rate, alert_mode, energy, cur,
                   stopRequested, ctlVars>>

\* a handler that starts the MonitorState afresh
W_ExceptReset ==
    /\ pc = "except"
    /\ events' = Append(events, Event("RecoverableError", None))
    /\ last_energy' = NoEnergy
    /\ last_below_threshold' = None
    /\ pc' = "backoff"
    /\ UNCHANGED <<img, uiVars, script, running, mutex, config, region, threshold, polling_rate,
                   alert_mode, energy, cur, hist, stopRequested, ctlVars>>

\* lines 78-79
W_Except ==
    /\ pc = "except"
    /\ events' = Append(events, Event("RecoverableError", None))
    /\ pc' = "backoff"
    /\ UNCHANGED <<img, uiVars, script, running, mutex, config, last_energy, last_below_threshold,
                   region, threshold, polling_rate, alert_mode, energy, cur, hist,
                   stopRequested, ctlVars>>

\* a failed cycle that sleeps the polling interval
W_BackoffPolling ==
    /\ pc = "backoff"
    /\ hist' = Append(hist, Finished(TRUE, polling_rate))
    /\ pc' = "while"
    /\ UNCHANGED <<img, uiVars, script, running, mutex, config, last_energy, last_below_threshold,
                   region, threshold, polling_rate, alert_mode, energy, events, cur,
                   stopRequested, ctlVars>>

\* line 80
W_Backoff ==
    /\ pc = "backoff"
    /\ hist' = Append(hist, Finished(TRUE, Backoff))
    /\ pc' = "while"
    /\ UNCHANGED <<img, uiVars, script, running, mutex, config, last_energy, last_below_threshold,
                   region, threshold, polling_rate, alert_mode, energy, events, cur,
                   stopRequested, ctlVars>>

\* the screen goes on yielding what the script says, from its start again; the
\* record of the run starts over with it
W_Rewind ==
    /\ pc = "while"
    /\ running
    /\ Len(hist) = Len(script)
    /\ hist' = <<>>
    /\ events' = <<>>
    /\ UNCHANGED <<img, uiVars, script, pc, running, mutex, config, last_energy, last_below_threshold,
                   region, threshold, polling_rate, alert_mode, energy, cur,
                   stopRequested, ctlVars>>

Worker ==
    \/ W_Run \/ W_While \/ W_Exit
    \/ W_Lock \/ W_ReadRegion \/ W_ReadThreshold \/ W_ReadPolling \/ W_ReadColor
    \/ W_ReadMode \/ W_Unlock
    \/ W_Grab \/ W_PreSkew \/ W_PreR \/ W_PreG \/ W_PreB \/ W_PreTol \/ W_Recognize
    \/ W_EmitFiltered \/ W_DetectEnergy \/ W_DetectThreshold
    \/ W_Sleep \/ W_Except \/ W_Backoff

----------------------------------------------------------------------------
(* The controller: the GUI thread's handlers.  Every handler writes the    *)
(* shared AppConfig object in place and then calls _save_and_emit, whose   *)
(* signal reaches EnergyMonitor.update_config (main.py:42-46).             *)

\* QSpinBox.setValue keeps the value inside the box's range
Clamp(v, lo, hi) == IF v < lo THEN lo ELSE IF v > hi THEN hi ELSE v

Begin == ctl = "idle" /\ ops < MaxOps /\ ops' = ops + 1

\* _on_threshold_changed, config_window.py:562-564
C_SetThreshold ==
    /\ Begin
    /\ \E v \in Thresholds \ {config.threshold} : config' = [config EXCEPT !.threshold = v]
    /\ ctl' = "emit"
    /\ arg' = [arg EXCEPT !.ret = "idle"]
    /\ UNCHANGED <<img, uiVars, appVars, script, mutex, workerVars, stopRequested, spin>>

\* _on_polling_changed, config_window.py:557-560
C_SetPolling ==
    /\ Begin
    /\ \E v \in PollingRates \ {config.polling_rate_ms} :
           config' = [config EXCEPT !.polling_rate_ms = v]
    /\ ctl' = "emit"
    /\ arg' = [arg EXCEPT !.ret = "idle"]
    /\ UNCHANGED <<img, uiVars, appVars, script, mutex, workerVars, stopRequested, spin>>

\* _on_mode_changed, config_window.py:566-571
C_SetMode ==
    /\ Begin
    /\ \E m \in AlertMode \ {config.alert_mode} : config' = [config EXCEPT !.alert_mode = m]
    /\ ctl' = "emit"
    /\ arg' = [arg EXCEPT !.ret = "idle"]
    /\ UNCHANGED <<img, uiVars, appVars, script, mutex, workerVars, stopRequested, spin>>

\* _on_color_tolerance_changed, config_window.py:534-536
C_SetTolerance ==
    /\ Begin
    /\ \E v \in Tolerances \ {config.text_color.tolerance} :
           config' = [config EXCEPT !.text_color.tolerance = v]
    /\ ctl' = "emit"
    /\ arg' = [arg EXCEPT !.ret = "idle"]
    /\ UNCHANGED <<img, uiVars, appVars, script, mutex, workerVars, stopRequested, spin>>

\* _on_skew_changed, config_window.py:538-540
C_SetSkew ==
    /\ Begin
    /\ \E v \in Skews \ {config.text_color.skew} :
           config' = [config EXCEPT !.text_color.skew = v]
    /\ ctl' = "emit"
    /\ arg' = [arg EXCEPT !.ret = "idle"]
    /\ UNCHANGED <<img, uiVars, appVars, script, mutex, workerVars, stopRequested, spin>>

\* _on_color_picked, config_window.py:528
C_PickColorR ==
    /\ Begin
    /\ \E c \in PickedColors :
           /\ config' = [config EXCEPT !.text_color.r = c.r]
           /\ arg' = [arg EXCEPT !.color = c]
    /\ ctl' = "pick_g"
    /\ UNCHANGED <<img, uiVars, appVars, script, mutex, workerVars, stopRequested, spin>>

\* _on_color_picked, config_window.py:529
C_PickColorG ==
    /\ ctl = "pick_g"
    /\ config' = [config EXCEPT !.text_color.g = arg.color.g]
    /\ ctl' = "pick_b"
    /\ UNCHANGED <<img, uiVars, appVars, script, mutex, workerVars, stopRequested, arg, spin, ops>>

\* _on_color_picked, config_window.py:530-532
C_PickColorB ==
    /\ ctl = "pick_b"
    /\ config' = [config EXCEPT !.text_color.b = arg.color.b]
    /\ ctl' = "emit"
    /\ arg' = [arg EXCEPT !.ret = "idle"]
    /\ UNCHANGED <<img, uiVars, appVars, script, mutex, workerVars, stopRequested, spin, ops>>

\* _on_region_selected, config_window.py:499 (_on_capture_region_adjusted,
\* lines 513-520, is the same statements): the region is one the selector emits,
\* any rectangle wider and higher than 5 (region_selector.py:101)
C_RegionSelected ==
    /\ Begin
    /\ \E rg \in SelectedRegions :
           /\ config' = [config EXCEPT !.capture_region = rg]
           /\ arg' = [arg EXCEPT !.region = rg, !.old = Some(config.capture_region)]
    /\ ctl' = "rs_x"
    /\ UNCHANGED <<img, uiVars, appVars, script, mutex, workerVars, stopRequested, spin>>

\* one setValue of _on_region_selected: a changed value fires valueChanged, whose
\* slot _on_region_changed (config_window.py:542-550) rebuilds the region from the
\* four spin boxes and calls _save_and_emit before setValue returns
SetValue(f, here, next, lo, hi) ==
    /\ ctl = here
    /\ LET v == Clamp(arg.region[f], lo, hi) IN
       IF v # spin[f]
       THEN /\ spin' = [spin EXCEPT ![f] = v]
            /\ config' = [config EXCEPT !.capture_region = spin']
            /\ ctl' = "emit"
            /\ arg' = [arg EXCEPT !.ret = next]
       ELSE /\ ctl' = next
            /\ UNCHANGED <<spin, config, arg>>
    /\ UNCHANGED <<img, uiVars, appVars, script, mutex, workerVars, stopRequested, ops>>

\* config_window.py:500, range of line 126
C_SetX == SetValue("x", "rs_x", "rs_y", 0, 9999)

\* config_window.py:501, range of line 132
C_SetY == SetValue("y", "rs_y", "rs_w", 0, 9999)

\* config_window.py:502, range of line 138
C_SetW == SetValue("width", "rs_w", "rs_h", 10, 500)

\* config_window.py:503, range of line 144
C_SetH == SetValue("height", "rs_h", "rs_end", 10, 500)

\* config_window.py:504-505
C_RegionDone ==
    /\ ctl = "rs_end"
    /\ ctl' = "emit"
    /\ arg' = [arg EXCEPT !.ret = "idle"]
    /\ UNCHANGED <<img, uiVars, appVars, script, mutex, config, workerVars, stopRequested, spin, ops>>

\* _save_and_emit (config_window.py:723-725) -> _on_config_changed
\* (main.py:42-46): the file is written, the overlay applies the configuration,
\* and with a monitor update_config takes the mutex (capture.py:25); with no
\* monitor there is no update_config
C_UpdateLock ==
    /\ ctl = "emit"
    /\ IF stopRequested
       THEN ctl' = arg.ret /\ mutex' = mutex
       ELSE mutex = "free" /\ mutex' = "controller" /\ ctl' = "unlock"
    /\ disk' = save_config(config)
    /\ overlay' = apply_config(overlay, config)
    /\ UNCHANGED <<img, io, appVars, script, config, workerVars, stopRequested, arg, spin, ops>>

\* update_config, capture.py:26-27: the same object is assigned again
C_UpdateUnlock ==
    /\ ctl = "unlock"
    /\ mutex' = "free"
    /\ ctl' = arg.ret
    /\ UNCHANGED <<img, uiVars, appVars, script, config, workerVars, stopRequested, arg, spin, ops>>

\* _stop_monitoring, main.py:62-63: with a monitor, stop() clears its flag
\* (capture.py:29-30); the stop counts as one of the run's controller operations
C_Stop ==
    /\ Begin
    /\ ~stopRequested
    /\ running' = FALSE
    /\ stopRequested' = TRUE
    /\ ctl' = "wait"
    /\ UNCHANGED <<img, uiVars, appVars, script, mutex, config, pc, last_energy, last_below_threshold,
                   region, threshold, polling_rate, alert_mode, energy, events, cur, hist,
                   arg, spin>>

\* a wait with no timeout: it returns only when the thread has finished
C_WaitForever ==
    /\ ctl = "wait"
    /\ pc = "done"
    /\ arg' = [arg EXCEPT !.waited = 0]
    /\ ctl' = "idle"
    /\ config' = [config EXCEPT !.monitoring_active = FALSE]
    /\ overlay' = apply_config(hide_alert(overlay), config')
    /\ disk' = save_config(config')
    /\ UNCHANGED <<img, io, appVars, script, mutex, workerVars, stopRequested, spin, ops>>

\* _stop_monitoring, main.py:64-68: wait(2000) returns when the thread has
\* finished or when 2000 ms have passed, whichever is first; then the monitor is
\* dropped, whether or not its thread has finished, the overlay is hidden and
\* update_status(False) clears monitoring_active (config_window.py:716).  The
\* caller, _toggle_monitoring (config_window.py:693-695, 709), clears it again
\* and calls _save_and_emit: the file is written and the overlay applies the
\* configuration; there is no monitor to update
C_Wait ==
    /\ ctl = "wait"
    /\ \E t \in IF pc = "done" THEN {0, WaitTimeout} ELSE {WaitTimeout} :
           arg' = [arg EXCEPT !.waited = t]
    /\ ctl' = "idle"
    /\ config' = [config EXCEPT !.monitoring_active = FALSE]
    /\ overlay' = apply_config(hide_alert(overlay), config')
    /\ disk' = save_config(config')
    /\ UNCHANGED <<img, io, appVars, script, mutex, workerVars, stopRequested, spin, ops>>

\* where a dropped thread is, as far as the application can still be touched by
\* it: before its first statement, at the loop test, inside a cycle, or inside a
\* grab that never returns
Coarse(p) ==
    IF p \in {"run", "while", "hung"} THEN p ELSE "cycle"

\* a restart that keeps the monitor object of the stopped session
C_StartReuse ==
    /\ ctl = "idle"
    /\ stopRequested
    /\ ~(config.alert_mode = IMAGE /\ config.alert_image_path = "")
    /\ session < MaxSessions
    /\ session' = session + 1
    /\ orphans' = IF pc = "done" THEN orphans
                  ELSE orphans \cup {[id |-> session, pc |-> Coarse(pc),
                                      running |-> running, lapped |-> FALSE]}
    /\ pc' = "run"
    /\ running' = FALSE
    /\ mutex' = "free"
    /\ stopRequested' = FALSE
    /\ cur' = NoCur
    /\ config' = [config EXCEPT !.monitoring_active = TRUE]
    /\ overlay' = apply_config(overlay, config')
    /\ disk' = save_config(config')
    /\ UNCHANGED <<img, io, script, last_energy, last_below_threshold, region, threshold,
                   polling_rate, alert_mode, energy, events, hist, ctl, arg, spin, ops>>

\* _start_monitoring, main.py:48-59, with no monitor (after a stop): a new
\* EnergyMonitor (capture.py:15-22: flag clear, a mutex of its own, detector
\* state unset) is created and started.  The thread of the dropped monitor, if
\* it has not finished, runs on with its own object.  (With a running monitor
\* line 50 returns and nothing changes.)  update_status(True) sets
\* monitoring_active (config_window.py:716); the caller, _toggle_monitoring
\* (config_window.py:706-709), sets it again and calls _save_and_emit: the file
\* is written, the overlay applies the configuration, and update_config assigns
\* the same object to the new monitor under its new mutex.  The toggle starts
\* nothing in IMAGE mode with no image chosen (config_window.py:699-701)
C_Start ==
    /\ ctl = "idle"
    /\ stopRequested
    /\ ~(config.alert_mode = IMAGE /\ config.alert_image_path = "")
    /\ session < MaxSessions
    /\ session' = session + 1
    /\ orphans' = IF pc = "done" THEN orphans
                  ELSE orphans \cup {[id |-> session, pc |-> Coarse(pc),
                                      running |-> running, lapped |-> FALSE]}
    /\ pc' = "run"
    /\ running' = FALSE
    /\ mutex' = "free"
    /\ last_energy' = NoEnergy
    /\ last_below_threshold' = None
    /\ stopRequested' = FALSE
    /\ cur' = NoCur
    /\ config' = [config EXCEPT !.monitoring_active = TRUE]
    /\ overlay' = apply_config(overlay, config')
    /\ disk' = save_config(config')
    /\ UNCHANGED <<img, io, script, region, threshold, polling_rate, alert_mode, energy,
                   events, hist, ctl, arg, spin, ops>>

\* a dropped thread's steps, run() of capture.py on the dropped object

\* line 33
O_Run(o) ==
    /\ o.pc = "run"
    /\ orphans' = (orphans \ {o}) \cup {[o EXCEPT !.pc = "while", !.running = TRUE]}
    /\ UNCHANGED <<img, uiVars, script, mutex, config, workerVars, stopRequested, ctl, arg, spin, ops,
                   session>>

\* line 40: another cycle, or the end of the thread
O_While(o) ==
    /\ o.pc = "while"
    /\ orphans' = IF o.running THEN (orphans \ {o}) \cup {[o EXCEPT !.pc = "cycle"]}
                  ELSE orphans \ {o}
    /\ UNCHANGED <<img, uiVars, script, mutex, config, workerVars, stopRequested, ctl, arg, spin, ops,
                   session>>

\* lines 41-80: the rest of a cycle, its signals and its sleep
O_Cycle(o) ==
    /\ o.pc = "cycle"
    /\ orphans' = (orphans \ {o}) \cup {[o EXCEPT !.pc = "while", !.lapped = TRUE]}
    /\ UNCHANGED <<img, uiVars, script, mutex, config, workerVars, stopRequested, ctl, arg, spin, ops,
                   session>>

Orphan == \E o \in orphans : O_Run(o) \/ O_While(o) \/ O_Cycle(o)

\* the GUI thread, back in its event loop, runs the slot of the next signal a
\* worker thread emitted: the signals are queued to it in the order of their
\* emission.  _on_energy_changed (main.py:70-73), _on_threshold_crossed
\* (main.py:75-79); the slots of the other two signals do not touch the overlay
\* window's visibility or its text
G_Deliver ==
    /\ ctl = "idle"
    /\ overlay.delivered < Len(events)
    /\ LET e == events[overlay.delivered + 1]
           o == [overlay EXCEPT !.delivered = @ + 1]
       IN  overlay' =
               IF e.type = "EnergyChanged" THEN update_energy(o, config, Val(e.payload))
               ELSE IF e.type = "ThresholdCrossed"
                    THEN IF Val(e.payload) THEN show_alert(o) ELSE hide_alert(o)
               ELSE o
    /\ UNCHANGED <<img, disk, io, script, mutex, config, workerVars, stopRequested, ctlVars>>

\* _test_alert, main.py:88-91: the overlay is shown and a single-shot timer of
\* 2000 ms is started
C_TestAlert ==
    /\ Begin
    /\ overlay' = [show_alert(overlay) EXCEPT !.timers = @ + 1]
    /\ UNCHANGED <<img, disk, io, script, mutex, config, workerVars, stopRequested,
                   ctl, arg, spin, appVars>>

\* the timer of _test_alert fires: hide_alert (main.py:91)
G_TestTimer ==
    /\ ctl = "idle"
    /\ overlay.timers > 0
    /\ overlay' = [hide_alert(overlay) EXCEPT !.timers = @ - 1]
    /\ UNCHANGED <<img, disk, io, script, mutex, config, workerVars, stopRequested, ctlVars>>

\* cleanup, main.py:96-98, when the event loop has returned: _stop_monitoring
\* up to its wait if there is a monitor; with none, the whole of it
\* (hide_alert, update_status(False)) and save_config.  arg.exit records
\* whether monitoring was active when the cleanup began
C_Cleanup ==
    /\ ctl = "idle"
    /\ arg' = [arg EXCEPT !.exit = Some(config.monitoring_active)]
    /\ IF ~stopRequested
       THEN /\ running' = FALSE
            /\ stopRequested' = TRUE
            /\ ctl' = "cleanup_wait"
            /\ UNCHANGED <<config, overlay, disk>>
       ELSE /\ config' = [config EXCEPT !.monitoring_active = FALSE]
            /\ overlay' = hide_alert(overlay)
            /\ disk' = save_config(config')
            /\ ctl' = "exited"
            /\ UNCHANGED <<running, stopRequested>>
    /\ UNCHANGED <<img, io, appVars, script, mutex, pc, last_energy, last_below_threshold,
                   region, threshold, polling_rate, alert_mode, energy, events, cur, hist,
                   spin, ops>>

\* cleanup with a monitor, main.py:64-68 and 98: the wait returns, the monitor is
\* dropped, the overlay hidden, update_status(False) clears monitoring_active,
\* and save_config writes the file
C_CleanupWait ==
    /\ ctl = "cleanup_wait"
    /\ \E t \in IF pc = "done" THEN {0, WaitTimeout} ELSE {WaitTimeout} :
           arg' = [arg EXCEPT !.waited = t]
    /\ config' = [config EXCEPT !.monitoring_active = FALSE]
    /\ overlay' = hide_alert(overlay)
    /\ disk' = save_config(config')
    /\ ctl' = "exited"
    /\ UNCHANGED <<img, io, appVars, script, mutex, workerVars, stopRequested, spin, ops>>

Controller ==
    \/ C_SetThreshold \/ C_SetPolling \/ C_SetMode \/ C_SetTolerance \/ C_SetSkew
    \/ C_PickColorR \/ C_PickColorG \/ C_PickColorB
    \/ C_RegionSelected \/ C_SetX \/ C_SetY \/ C_SetW \/ C_SetH \/ C_RegionDone
    \/ C_UpdateLock \/ C_UpdateUnlock \/ C_Stop \/ C_Wait

----------------------------------------------------------------------------
(* The image functions of EnergyMonitor (capture.py:119-218).              *)
(*                                                                         *)
(* A pixel of an RGB image is <<r, g, b>>, of an L image a number, of an   *)
(* RGBA image <<r, g, b, a>>.  An image is an object (id), its size and    *)
(* its pixels px[y][x], rows and columns counted from 0.  A skew is in     *)
(* hundredths, as everywhere in this module, and the arithmetic on it is   *)
(* exact: the rounding of the floating-point products is not modelled.     *)

Black == <<0, 0, 0>>

White == <<255, 255, 255>>

Abs(v) == IF v < 0 THEN -v ELSE v

\* int(img.height + shift), shift = abs(skew * img.width): int() truncates
new_height(im, skew) == im.height + (Abs(skew * im.width) \div 100)

\* the coefficients d and f of the affine transform, in hundredths
\* (a = 1, b = 0, c = 0 and e = 1 in both branches)
coeffs(im, skew) ==
    IF skew > 0 THEN [d |-> -skew, f |-> skew * im.width]
    ELSE [d |-> -skew, f |-> 0]

\* the transform maps the centre of output pixel (x, y) to the input point
\* (x + 0.5, d * (x + 0.5) + (y + 0.5) + f); its row, in 200ths of a pixel
InputY(cf, x, y) == cf.d * (2 * x + 1) + 100 * (2 * y + 1) + 2 * cf.f

\* the bilinear sample at column centre x and row yin (200ths): outside the input
\* the output keeps the fill colour; inside, the two rows around yin - 0.5 are
\* mixed and the result truncated to 8 bits; a row past the last repeats it
Bilinear(im, x, yin) ==
    IF yin < 0 \/ yin >= 200 * im.height THEN Black
    ELSE LET yc == yin - 100
             y0 == yc \div 200
             dy == yc - 200 * y0
             v1 == im.px[Clamp(y0, 0, im.height - 1)][x]
             v2 == IF y0 + 1 >= 0 /\ y0 + 1 < im.height THEN im.px[y0 + 1][x] ELSE v1
         IN  [ch \in 1..3 |-> (200 * v1[ch] + (v2[ch] - v1[ch]) * dy) \div 200]

\* img.transform((img.width, new_height), AFFINE, coeffs, BILINEAR, fillcolor=0)
transform(im, skew) ==
    LET cf == coeffs(im, skew) IN
    [id |-> "transformed", mode |-> "RGB",
     width |-> im.width, height |-> new_height(im, skew),
     px |-> [y \in 0..(new_height(im, skew) - 1) |->
                [x \in 0..(im.width - 1) |-> Bilinear(im, x, InputY(cf, x, y))]]]

\* without the early return
apply_skewAlways(im, skew) == transform(im, skew)

\* EnergyMonitor._apply_skew
apply_skew(im, skew) == IF skew = 0 THEN im ELSE transform(im, skew)

\* a value of a 16-bit signed array
Int16(v) == ((v + 32768) % 65536) - 32768

\* the difference taken in the 8-bit unsigned type of the array
ChannelMatchUint8(p, target, tolerance) == ((p - target) % 256) <= tolerance

\* only a difference of exactly the tolerance matches
ChannelMatchExact(p, target, tolerance) == Abs(Int16(Int16(p) - target)) = tolerance

\* np.abs(arr[:, :, c].astype(np.int16) - target) <= tolerance
ChannelMatch(p, target, tolerance) == Abs(Int16(Int16(p) - target)) <= tolerance

\* matches = r_match & g_match & b_match
Matches(p, tc) ==
    /\ ChannelMatch(p[1], tc.r, tc.tolerance)
    /\ ChannelMatch(p[2], tc.g, tc.tolerance)
    /\ ChannelMatch(p[3], tc.b, tc.tolerance)

\* the binary image of _preprocess_image before it is scaled
HardMask(im, tc) ==
    [id |-> "mask", mode |-> "L", width |-> im.width, height |-> im.height,
     px |-> [y \in 0..(im.height - 1) |->
                [x \in 0..(im.width - 1) |-> IF Matches(im.px[y][x], tc) THEN 255 ELSE 0]]]

\* img.resize(new_size, LANCZOS) on an 8-bit image: for an input line of n pixels,
\* Lanczos[n][xx + 1] is the window of output pixel xx of the 2n outputs, its
\* first input pixel xmin and its weights k, normalised to sum to 1 and rounded
\* to 22 fractional bits (window of 3 input pixels each side, cut at the borders)
Lanczos ==
    << << [xmin |-> 0, k |-> <<4194304>>],
          [xmin |-> 0, k |-> <<4194304>>] >>,
       << [xmin |-> 0, k |-> <<4930311, -736007>>],
          [xmin |-> 0, k |-> <<3217574, 976730>>],
          [xmin |-> 0, k |-> <<976730, 3217574>>],
          [xmin |-> 0, k |-> <<-736007, 4930311>>] >>,
       << [xmin |-> 0, k |-> <<4742290, -707939, 159953>>],
          [xmin |-> 0, k |-> <<3417235, 1037340, -260271>>],
          [xmin |-> 0, k |-> <<1103050, 3633700, -542446>>],
          [xmin |-> 0, k |-> <<-542446, 3633700, 1103050>>],
          [xmin |-> 0, k |-> <<-260271, 1037340, 3417235>>],
          [xmin |-> 0, k |-> <<159953, -707939, 4742290>>] >>,
       << [xmin |-> 0, k |-> <<4742290, -707939, 159953>>],
          [xmin |-> 0, k |-> <<3394380, 1030402, -258531, 28053>>],
          [xmin |-> 0, k |-> <<1071733, 3530535, -527045, 119081>>],
          [xmin |-> 0, k |-> <<-580768, 3890405, 1180976, -296310>>],
          [xmin |-> 0, k |-> <<-296310, 1180976, 3890405, -580768>>],
          [xmin |-> 0, k |-> <<119081, -527045, 3530535, 1071733>>],
          [xmin |-> 0, k |-> <<28053, -258531, 1030402, 3394380>>],
          [xmin |-> 1, k |-> <<159953, -707939, 4742290>>] >>,
       << [xmin |-> 0, k |-> <<4742290, -707939, 159953>>],
          [xmin |-> 0, k |-> <<3394380, 1030402, -258531, 28053>>],
          [xmin |-> 0, k |-> <<1071733, 3530535, -527045, 119081>>],
          [xmin |-> 0, k |-> <<-576350, 3860810, 1171992, -294056, 31908>>],
          [xmin |-> 0, k |-> <<-287321, 1145150, 3772386, -563149, 127239>>],
          [xmin |-> 0, k |-> <<127239, -563149, 3772386, 1145150, -287321>>],
          [xmin |-> 0, k |-> <<31908, -294056, 1171992, 3860810, -576350>>],
          [xmin |-> 1, k |-> <<119081, -527045, 3530535, 1071733>>],
          [xmin |-> 1, k |-> <<28053, -258531, 1030402, 3394380>>],
          [xmin |-> 2, k |-> <<159953, -707939, 4742290>>] >>,
       << [xmin |-> 0, k |-> <<4742290, -707939, 159953>>],
          [xmin |-> 0, k |-> <<3394380, 1030402, -258531, 28053>>],
          [xmin |-> 0, k |-> <<1071733, 3530535, -527045, 119081>>],
          [xmin |-> 0, k |-> <<-576350, 3860810, 1171992, -294056, 31908>>],
          [xmin |-> 0, k |-> <<-287321, 1145150, 3772386, -563149, 127239>>],
          [xmin |-> 0, k |-> <<126300, -558994, 3744552, 1136701, -285201, 30947>>],
          [xmin |-> 0, k |-> <<30947, -285201, 1136701, 3744552, -558994, 126300>>],
          [xmin |-> 1, k |-> <<127239, -563149, 3772386, 1145150, -287321>>],
          [xmin |-> 1, k |-> <<31908, -294056, 1171992, 3860810, -576350>>],
          [xmin |-> 2, k |-> <<119081, -527045, 3530535, 1071733>>],
          [xmin |-> 2, k |-> <<28053, -258531, 1030402, 3394380>>],
          [xmin |-> 3, k |-> <<159953, -707939, 4742290>>] >>,
       << [xmin |-> 0, k |-> <<4742290, -707939, 159953>>],
          [xmin |-> 0, k |-> <<3394380, 1030402, -258531, 28053>>],
          [xmin |-> 0, k |-> <<1071733, 3530535, -527045, 119081>>],
          [xmin |-> 0, k |-> <<-576350, 3860810, 1171992, -294056, 31908>>],
          [xmin |-> 0, k |-> <<-287321, 1145150, 3772386, -563149, 127239>>],
          [xmin |-> 0, k |-> <<126300, -558994, 3744552, 1136701, -285201, 30947>>],
          [xmin |-> 0, k |-> <<30947, -285201, 1136701, 3744552, -558994, 126300>>],
          [xmin |-> 1, k |-> <<126300, -558994, 3744552, 1136701, -285201, 30947>>],
          [xmin |-> 1, k |-> <<30947, -285201, 1136701, 3744552, -558994, 126300>>],
          [xmin |-> 2, k |-> <<127239, -563149, 3772386, 1145150, -287321>>],
          [xmin |-> 2, k |-> <<31908, -294056, 1171992, 3860810, -576350>>],
          [xmin |-> 3, k |-> <<119081, -527045, 3530535, 1071733>>],
          [xmin |-> 3, k |-> <<28053, -258531, 1030402, 3394380>>],
          [xmin |-> 4, k |-> <<159953, -707939, 4742290>>] >>,
       << [xmin |-> 0, k |-> <<4742290, -707939, 159953>>],
          [xmin |-> 0, k |-> <<3394380, 1030402, -258531, 28053>>],
          [xmin |-> 0, k |-> <<1071733, 3530535, -527045, 119081>>],
          [xmin |-> 0, k |-> <<-576350, 3860810, 1171992, -294056, 31908>>],
          [xmin |-> 0, k |-> <<-287321, 1145150, 3772386, -563149, 127239>>],
          [xmin |-> 0, k |-> <<126300, -558994, 3744552, 1136701, -285201, 30947>>],
          [xmin |-> 0, k |-> <<30947, -285201, 1136701, 3744552, -558994, 126300>>],
          [xmin |-> 1, k |-> <<126300, -558994, 3744552, 1136701, -285201, 30947>>],
          [xmin |-> 1, k |-> <<30947, -285201, 1136701, 3744552, -558994, 126300>>],
          [xmin |-> 2, k |-> <<126300, -558994, 3744552, 1136701, -285201, 30947>>],
          [xmin |-> 2, k |-> <<30947, -285201, 1136701, 3744552, -558994, 126300>>],
          [xmin |-> 3, k |-> <<127239, -563149, 3772386, 1145150, -287321>>],
          [xmin |-> 3, k |-> <<31908, -294056, 1171992, 3860810, -576350>>],
          [xmin |-> 4, k |-> <<119081, -527045, 3530535, 1071733>>],
          [xmin |-> 4, k |-> <<28053, -258531, 1030402, 3394380>>],
          [xmin |-> 5, k |-> <<159953, -707939, 4742290>>] >> >>

\* the weighted sum of a window, accumulated from the last weight down
RECURSIVE Dot(_, _, _, _)
Dot(line, xmin, k, n) ==
    IF n = 0 THEN 0 ELSE line[xmin + n - 1] * k[n] + Dot(line, xmin, k, n - 1)

\* one output pixel: the sum plus one half, shifted down 22 bits, clipped to 8 bits
Resample(line, n, xx) ==
    LET b == Lanczos[n][xx + 1] IN
    Clamp((2097152 + Dot(line, b.xmin, b.k, Len(b.k))) \div 4194304, 0, 255)

\* the horizontal pass over every row, then the vertical pass over every column
resize(im) ==
    LET tmp == [y \in 0..(im.height - 1) |->
                   [xx \in 0..(2 * im.width - 1) |-> Resample(im.px[y], im.width, xx)]]
    IN  [id |-> "resized", mode |-> "L", width |-> 2 * im.width, height |-> 2 * im.height,
         px |-> [yy \in 0..(2 * im.height - 1) |->
                    [xx \in 0..(2 * im.width - 1) |->
                        Resample([y \in 0..(im.height - 1) |-> tmp[y][xx]], im.height, yy)]]]

\* the hard policy with a tolerance that depends on the MonitorState
preprocess_imageByState(im, tc) ==
    resize(HardMask(IF tc.skew # 0 THEN apply_skew(im, tc.skew) ELSE im,
                    [tc EXCEPT !.tolerance = IF last_energy = NoEnergy THEN @ ELSE 0]))

\* EnergyMonitor._preprocess_image
preprocess_image(im, tc) ==
    resize(HardMask(IF tc.skew # 0 THEN apply_skew(im, tc.skew) ELSE im, tc))

\* (np.power(np.clip(1.0 - distance / (tolerance * 1.732), 0, 1), 0.7) * 255)
\* .astype(np.uint8) for the squared distances d2 the pixels and targets of
\* ImgLevels and ImgTargets have below 3 * tolerance^2, in 32-bit floats
SoftTable ==
    { <<0, 30, 255>>, <<0, 31, 255>>, <<1, 30, 251>>, <<1, 31, 251>>,
      <<900, 30, 139>>, <<900, 31, 143>>, <<901, 30, 139>>, <<901, 31, 143>>,
      <<961, 30, 135>>, <<961, 31, 139>>, <<962, 30, 134>>, <<962, 31, 139>>,
      <<1800, 30, 77>>, <<1800, 31, 85>>, <<1861, 30, 73>>, <<1861, 31, 81>>,
      <<1922, 30, 69>>, <<1922, 31, 77>>,
      <<2700, 31, 23>>, <<2761, 31, 17>>, <<2822, 31, 10>>, <<2883, 31, 0>> }

\* the alpha of a pixel at squared distance d2 from the target.  With tolerance 0
\* the quotient is 0/0 for d2 = 0, a NaN whose conversion to uint8 is whatever
\* the build yields (nan), and infinite otherwise, which clips to alpha 0; at
\* d2 >= 3 * tolerance^2 the distance exceeds tolerance * 1.732 and alpha clips to 0
SoftAlpha(d2, tolerance, nan) ==
    IF tolerance = 0 THEN (IF d2 = 0 THEN nan ELSE 0)
    ELSE IF d2 >= 3 * tolerance * tolerance THEN 0
    ELSE (CHOOSE e \in SoftTable : e[1] = d2 /\ e[2] = tolerance)[3]

\* r_diff**2 + g_diff**2 + b_diff**2
Distance2(p, tc) ==
    (p[1] - tc.r) * (p[1] - tc.r) + (p[2] - tc.g) * (p[2] - tc.g)
        + (p[3] - tc.b) * (p[3] - tc.b)

\* EnergyMonitor._preprocess_for_display
preprocess_for_display(im, tc, nan) ==
    LET in == IF tc.skew # 0 THEN apply_skew(im, tc.skew) ELSE im IN
    [id |-> "display", mode |-> "RGBA", width |-> in.width, height |-> in.height,
     px |-> [y \in 0..(in.height - 1) |->
                [x \in 0..(in.width - 1) |->
                    <<255, 255, 255, SoftAlpha(Distance2(in.px[y][x], tc), tc.tolerance, nan)>>]]]

\* the caller's image after a call: np.array(img) copies the pixels, and the
\* functions rebind the local name img only
InputAfter(im) == im

\* the variables of the monitor, the controller and the application
progVars == <<script, pc, running, mutex, config, last_energy, last_below_threshold,
              region, threshold, polling_rate, alert_mode, energy, events, cur, hist,
              stopRequested, ctl, arg, spin, ops, session, orphans, overlay, disk, io>>

\* no image function is under study
NoImg == [buf |-> <<>>, color |-> <<>>, nan |-> 0, calls |-> <<>>]

\* Image.frombytes("RGB", screenshot.size, ...): a new RGB image of the screen
\* with the pixels px[y][x]
Screenshot(w, h, px) ==
    [id |-> "screenshot", mode |-> "RGB", width |-> w, height |-> h, px |-> px]

\* one call of an image function on the buffer, with target colour tc: the
\* record keeps what was passed (tc, on), the binary image before scaling where
\* the function has one (pre), what came back (res), and the MonitorState and
\* the number of finished cycles at the call
Call(f, tc, pre, res) ==
    /\ img.buf # <<>>
    /\ Cardinality({ i \in 1..Len(img.calls) : img.calls[i].f = f }) < MaxCalls
    /\ img' = [img EXCEPT !.calls = Append(@, [f |-> f, tc |-> tc, on |-> img.buf,
                                               pre |-> pre, res |-> res,
                                               state |-> <<last_energy, last_below_threshold>>,
                                               cycles |-> Len(hist)]),
                          !.buf = InputAfter(@)]

\* self._apply_skew(img, text_color.skew)
I_ApplySkew ==
    /\ Call("skew", img.color, <<>>, apply_skew(img.buf, img.color.skew))
    /\ UNCHANGED progVars

\* self._preprocess_image(img, text_color), at each tolerance of Ts
I_PreprocessImage(Ts) ==
    /\ \E t \in Ts :
         LET tc == [img.color EXCEPT !.tolerance = t] IN
         Call("hard", tc,
              HardMask(IF tc.skew # 0 THEN apply_skew(img.buf, tc.skew) ELSE img.buf, tc),
              preprocess_image(img.buf, tc))
    /\ UNCHANGED progVars

\* self._preprocess_for_display(img, text_color), at each tolerance of Ts
I_PreprocessForDisplay(Ts) ==
    /\ \E t \in Ts :
         LET tc == [img.color EXCEPT !.tolerance = t] IN
         Call("soft", tc, <<>>, preprocess_for_display(img.buf, tc, img.nan))
    /\ UNCHANGED progVars

----------------------------------------------------------------------------
(* Specifications.                                                         *)

\* the state after EnergyMonitor(config) and start() (main.py:52-57), with the
\* configuration window built on the same object (config_window.py:418-437)
\* with the configuration load_config returned: region rg and tolerance tol are
\* what the file held (config.py:122-125; absent keys leave the defaults)
InitApp(S, Rs, Tols, Ps) ==
    /\ script \in S
    /\ pc = "run"
    /\ running = FALSE
    /\ mutex = "free"
    /\ \E m \in AlertMode, rg \in Rs, tol \in Tols, p \in Ps :
           config = [DefaultConfig EXCEPT !.capture_region = rg,
                                          !.text_color = [DefaultColor EXCEPT !.tolerance = tol],
                                          !.polling_rate_ms = p, !.alert_mode = m,
                                          !.alert_image_path = AlertImage,
                                          !.monitoring_active = TRUE]
    /\ last_energy = NoEnergy
    /\ last_below_threshold = None
    /\ region = DefaultRegion
    /\ threshold = 50
    /\ polling_rate = 100
    /\ alert_mode = IMAGE
    /\ energy = None
    /\ events = <<>>
    /\ cur = NoCur
    /\ hist = <<>>
    /\ stopRequested = FALSE
    /\ ctl = "idle"
    /\ arg = [region |-> DefaultRegion, color |-> [r |-> 255, g |-> 255, b |-> 255],
              ret |-> "idle", waited |-> 0, old |-> None, exit |-> None]
    /\ spin = [x |-> Clamp(config.capture_region.x, 0, 9999),
               y |-> Clamp(config.capture_region.y, 0, 9999),
               width |-> Clamp(config.capture_region.width, 10, 500),
               height |-> Clamp(config.capture_region.height, 10, 500)]
    /\ ops = 0
    /\ session = 1
    /\ orphans = {}
    /\ overlay = NewOverlay(config)

\* the file holds the configuration as the start of the monitoring saved it
\* (config_window.py:709), and no configuration function is under study
InitMonitor(S, Rs, Tols, Ps) ==
    /\ InitApp(S, Rs, Tols, Ps)
    /\ disk = save_config(config)
    /\ io = <<>>

\* monitoring, with no image function under study
InitFrom(S, Rs, Tols, Ps) == InitMonitor(S, Rs, Tols, Ps) /\ img = NoImg

\* with no configuration file, or one that holds the defaults
InitWith(S) == InitFrom(S, {DefaultRegion}, {DefaultColor.tolerance}, {100})

\* the detector under every script, with the controller changing the threshold
\* and the mode and stopping the session
Init == InitWith(Scripts)

Next ==
    \/ Worker
    \/ C_SetThreshold \/ C_SetMode \/ C_UpdateLock \/ C_UpdateUnlock \/ C_Stop \/ C_Wait

Spec == Init /\ [][Next]_vars

\* the snapshot under every handler of the controller, on short scripts
ShortScripts == {<<T40, T60>>, <<T60, GrabFail>>}

InitConfig == InitWith(ShortScripts)

NextConfig == Worker \/ Controller

SpecConfig == InitConfig /\ [][NextConfig]_vars

\* sessions: stop, the bounded wait, a restart, and the threads left behind
SessionScripts == {<<T40, T40, T60>>, <<T60, GrabHang, T60>>, <<T40, GrabFail, T40>>}

InitSession == InitWith(SessionScripts)

NextSession == Worker \/ C_Stop \/ C_Wait \/ C_Start \/ Orphan

SpecSession == InitSession /\ [][NextSession]_vars

\* what a configuration file may hold for the region and the tolerance
FileRegions ==
    { DefaultRegion,
      [x |-> 100, y |-> 200, width |-> 0, height |-> 35],
      [x |-> 100, y |-> 200, width |-> 60, height |-> -5] }

FileTolerances == {30, -1}

\* what a configuration file may hold for polling_rate_ms
FilePollingRates == {100, 1000, 1500}

\* monitoring with a configuration read from a file
InitLoad == InitFrom(ShortScripts, FileRegions, FileTolerances, FilePollingRates)

NextLoad == Worker \/ C_SetThreshold \/ C_UpdateLock \/ C_UpdateUnlock \/ C_Stop \/ C_Wait

SpecLoad == InitLoad /\ [][NextLoad]_vars

\* stopping, with the threads scheduled fairly: the worker thread runs whenever
\* it can, and the controller's wait returns
StopScripts == {<<T40, T60>>, <<GrabFail, T40>>, <<T60, GrabHang>>}

InitStop == InitWith(StopScripts)

NextStop == Worker \/ W_Rewind \/ C_Stop \/ C_Wait

SpecStop ==
    InitStop /\ [][NextStop]_vars /\ WF_vars(Worker \/ W_Rewind) /\ WF_vars(C_Wait)

\* the worker, cycle after cycle, against a controller whose handler calls
\* update_config.  The worker is scheduled; so is the controller, whose
\* lock() is granted at one of the times the mutex is free: between two
\* snapshots the worker captures, recognizes and sleeps with the mutex free
NextMutex ==
    \/ Worker \/ W_Rewind
    \/ C_SetThreshold \/ C_UpdateLock \/ C_UpdateUnlock \/ C_Stop \/ C_Wait

SpecMutex ==
    /\ InitStop /\ [][NextMutex]_vars
    /\ WF_vars(Worker \/ W_Rewind)
    /\ SF_vars(C_UpdateLock) /\ WF_vars(C_UpdateUnlock) /\ WF_vars(C_Wait)

\* the monitor, the overlay it drives through its signals, and the stop,
\* start and test-alert handlers
InitOverlay == InitWith(ShortScripts)

NextOverlay ==
    \/ Worker \/ G_Deliver
    \/ C_Stop \/ C_Wait \/ C_Start
    \/ C_TestAlert \/ G_TestTimer

SpecOverlay == InitOverlay /\ [][NextOverlay]_vars

\* a session, the user's stop and start, and the exit of the application
NextExit ==
    \/ Worker
    \/ C_Stop \/ C_Wait \/ C_Start
    \/ C_Cleanup \/ C_CleanupWait

SpecExit == InitOverlay /\ [][NextExit]_vars

\* an AppConfig with every field off its default
ChangedConfig ==
    [capture_region |-> [x |-> 100, y |-> 200, width |-> 40, height |-> 20],
     text_color |-> [r |-> 10, g |-> 20, b |-> 30, tolerance |-> 5, skew |-> 5],
     threshold |-> 65, polling_rate_ms |-> 250, alert_mode |-> FILTERED,
     alert_image_path |-> AlertImage,
     image_position |-> [x |-> 1, y |-> 2], image_size |-> [width |-> 3, height |-> 4],
     number_position |-> [x |-> 5, y |-> 6], number_size |-> [width |-> 7, height |-> 8],
     filtered_position |-> [x |-> 9, y |-> 10], filtered_size |-> [width |-> 11, height |-> 12],
     alert_opacity |-> 50, monitoring_active |-> TRUE, tesseract_path |-> "tesseract.exe"]

\* the defaults, the defaults with one field changed, for every field, the
\* third mode, and every field changed
FileConfigs ==
    {DefaultConfig, ChangedConfig, [DefaultConfig EXCEPT !.alert_mode = NUMBER]}
        \cup {[DefaultConfig EXCEPT ![f] = ChangedConfig[f]] : f \in DOMAIN DefaultConfig}

\* a dictionary with key k set to v, and one without the keys K
With(f, k, v) == [x \in DOMAIN f \cup {k} |-> IF x = k THEN v ELSE f[x]]

Without(f, K) == [x \in DOMAIN f \ K |-> f[x]]

SavedDict == to_dict(ChangedConfig).dict

\* a file of an old version: alert_position and alert_size, with and without
\* the keys that replaced them
BothKeys ==
    With(With(SavedDict, "alert_position", asdict([x |-> 21, y |-> 22])),
         "alert_size", asdict([width |-> 23, height |-> 24]))

LegacyDicts ==
    {PyDict(BothKeys),
     PyDict(Without(BothKeys, {"image_position", "image_size"})),
     PyDict(Without(BothKeys, {"image_position", "alert_size"}))}

\* what a file that is JSON may hold beside a saved configuration: a few keys
\* only, a container that is no dictionary, a number, a scalar field or a
\* nested object of the wrong type, an unknown key in a nested object, an
\* alert_mode that is no mode, and two of these at once
OddDicts ==
    {PyDict(Without(SavedDict, DOMAIN SavedDict \ {"threshold", "text_color"})),
     PyList(<<>>),
     PyInt(5),
     PyDict(With(SavedDict, "threshold", PyStr("high"))),
     PyDict(With(SavedDict, "capture_region", PyInt(5))),
     PyDict(With(SavedDict, "image_size", PyList(<<PyInt(3), PyInt(4)>>))),
     PyDict(With(SavedDict, "capture_region", PyDict(With(SavedDict.capture_region.dict, "z", PyInt(1))))),
     PyDict(With(SavedDict, "alert_mode", PyStr("bogus"))),
     PyDict(With(SavedDict, "alert_mode", PyInt(3))),
     PyDict(With(With(SavedDict, "alert_mode", PyStr("bogus")), "capture_region", PyInt(5))),
     PyDict(With(With(SavedDict, "alert_mode", PyStr("bogus")), "image_size", PyInt(5)))}

FileStates ==
    {NoFile, Garbage, save_config(DefaultConfig), save_config(ChangedConfig)}
        \cup {Json(d) : d \in LegacyDicts \cup OddDicts}

\* one call of a configuration function, recorded with what it was given and
\* what it returned
FileCall(f, in, out) ==
    /\ Len(io) < MaxCalls
    /\ io' = Append(io, [f |-> f, in |-> in, out |-> out])
    /\ UNCHANGED <<img, overlay, script, mutex, config, workerVars, stopRequested, ctlVars>>

\* load_config on the file as it is
F_Load == FileCall("load_config", disk, load_config(disk)) /\ disk' = disk

\* save_config
F_Save(Cs) == \E c \in Cs : FileCall("save_config", c, save_config(c)) /\ disk' = save_config(c)

\* AppConfig.from_dict
F_FromDict(Ds) == \E d \in Ds : FileCall("from_dict", d, from_dict(d)) /\ disk' = disk

\* the configuration functions under study; the application is as in InitImage
\* and takes no step
InitFiles(Fs) ==
    /\ InitApp({<<T40>>}, {DefaultRegion}, {DefaultColor.tolerance}, {100})
    /\ config.alert_mode = NUMBER
    /\ img = NoImg
    /\ disk \in Fs
    /\ io = <<>>

\* load_config and save_config on the files above
InitFile == InitFiles(FileStates)

NextFile ==
    F_Load \/ F_Save({DefaultConfig, ChangedConfig, [DefaultConfig EXCEPT !.monitoring_active = TRUE]})

SpecFile == InitFile /\ [][NextFile]_vars

\* from_dict on what to_dict returns and on the dictionaries above
InitDict == InitFiles({NoFile})

NextDict == F_FromDict({to_dict(c) : c \in FileConfigs} \cup LegacyDicts \cup OddDicts)

SpecDict == InitDict /\ [][NextDict]_vars

\* screens of two pixels: one of every colour of ImgLevels, one near white
GeneralBuffers ==
    { Screenshot(2, 1, [y \in {0} |-> [x \in {0, 1} |->
                            IF x = 0 THEN <<r, g, b>> ELSE <<225, 225, 255>>]]) :
        r \in ImgLevels, g \in ImgLevels, b \in ImgLevels }

\* a black screen with a white rectangle
Literal(q) ==
    Screenshot(MaxSide, MaxSide - 1,
               [y \in 0..(MaxSide - 2) |-> [x \in 0..(MaxSide - 1) |->
                   IF q.x0 <= x /\ x <= q.x1 /\ q.y0 <= y /\ y <= q.y1
                   THEN White ELSE Black]])

LiteralBuffers == { Literal(q) : q \in Rects }

\* a buffer and a target colour for the image functions
InitImg(Bufs, Targets, Sks, Nans) ==
    \E b \in Bufs, t \in Targets, s \in Sks, n \in Nans :
        img = [buf |-> b,
               color |-> [r |-> t.r, g |-> t.g, b |-> t.b,
                          tolerance |-> DefaultColor.tolerance, skew |-> s],
               nan |-> n, calls |-> <<>>]

\* an image function alone, on every buffer, target, skew and tolerance, before
\* the monitor has run
InitImage ==
    /\ InitMonitor({<<T40>>}, {DefaultRegion}, {DefaultColor.tolerance}, {100})
    /\ config.alert_mode = NUMBER
    /\ InitImg(GeneralBuffers \cup LiteralBuffers, ImgTargets, ImgSkews, {0})

\* the hard policy
NextImage == I_PreprocessImage(ImgTolerances)

SpecImage == InitImage /\ [][NextImage]_vars

\* the skew correction
NextSkew == I_ApplySkew

SpecSkew == InitImage /\ [][NextSkew]_vars

\* a screen of two pixels, one white and one near white
SegmentBuffers ==
    { Screenshot(2, 1, [y \in {0} |-> [x \in {0, 1} |->
                            IF x = 0 THEN White ELSE <<225, 225, 255>>]]) }

SegmentTolerances == {0, 30}

\* the steps of a cycle that raises nothing, in a session that is not stopped
GoodCycle ==
    \/ W_Run \/ W_While
    \/ W_Lock \/ W_ReadRegion \/ W_ReadThreshold \/ W_ReadPolling \/ W_ReadColor
    \/ W_ReadMode \/ W_Unlock
    \/ W_Grab \/ W_PreSkew \/ W_PreR \/ W_PreG \/ W_PreB \/ W_PreTol \/ W_Recognize
    \/ W_EmitFiltered \/ W_DetectEnergy \/ W_DetectThreshold
    \/ W_Sleep

\* the two policies called while the monitor runs its cycles in NUMBER mode
InitSegment ==
    /\ InitMonitor({<<T40>>}, {DefaultRegion}, {DefaultColor.tolerance}, {100})
    /\ config.alert_mode = NUMBER
    /\ InitImg(SegmentBuffers, {[r |-> 255, g |-> 255, b |-> 255]}, {0, 50}, NanBytes)

NextSegment ==
    \/ GoodCycle
    \/ I_PreprocessImage({DefaultColor.tolerance}) \/ I_PreprocessForDisplay(SegmentTolerances)

SpecSegment == InitSegment /\ [][NextSegment]_vars

----------------------------------------------------------------------------
(* Reading the record of a run.                                            *)

OfType(type) == SelectSeq(events, LAMBDA e : e.type = type)

\* the payloads of the events of one type emitted in cycle c, in order
Pay(type, c) ==
    LET sel == SelectSeq(events, LAMBDA e : e.type = type /\ e.cycle = c)
    IN  [i \in 1..Len(sel) |-> Val(sel[i].payload)]

\* how many events of one type cycle c emitted
Count(type, c) == Len(SelectSeq(events, LAMBDA e : e.type = type /\ e.cycle = c))

\* <<cycle, payload>> of every event of one type, in order
Trail(type) ==
    LET sel == OfType(type) IN [i \in 1..Len(sel) |-> <<sel[i].cycle, Val(sel[i].payload)>>]

\* the readings of the finished cycles
Readings == [c \in 1..Len(hist) |-> hist[c].reading]

----------------------------------------------------------------------------
(* C1: in every finished cycle EnergyChanged(v) is emitted exactly when a  *)
(* number v was recognized and v differs from last_energy (unset, -1, when *)
(* the session starts), and last_energy is v afterwards; the recognized    *)
(* sequence [50, 50, 62, 62, 40] yields the events 50, 62, 40 in order.    *)
C1_EnergyEdge ==
    /\ \A c \in 1..Len(hist) :
          LET h == hist[c] IN
          /\ c = 1 => h.preE = NoEnergy
          /\ IF IsSome(h.reading) /\ Val(h.reading) # h.preE
             THEN Pay("EnergyChanged", c) = <<Val(h.reading)>>
             ELSE Pay("EnergyChanged", c) = <<>>
          /\ h.postE = IF IsSome(h.reading) THEN Val(h.reading) ELSE h.preE
    /\ Readings = <<Some(50), Some(50), Some(62), Some(62), Some(40)>>
          => Trail("EnergyChanged") = <<<<1, 50>>, <<3, 62>>, <<5, 40>>>>

C1_Witness ==
    /\ Readings = <<Some(50), Some(50), Some(62), Some(62), Some(40)>>
    /\ Len(OfType("EnergyChanged")) = 3

\* the threshold stayed 50 in every finished cycle
Threshold50 == \A c \in 1..Len(hist) : hist[c].thr = 50

(* C2, as claimed: with threshold 50 the recognized sequence                *)
(* [60, 40, 40, 55, 30] fires ThresholdCrossed exactly three times, true at *)
(* 40, false at 55, true at 30, and not at the initial 60.                  *)
C2_ThreeEvents ==
    (Readings = <<Some(60), Some(40), Some(40), Some(55), Some(30)>> /\ Threshold50)
        => Trail("ThresholdCrossed") = <<<<2, TRUE>>, <<4, FALSE>>, <<5, TRUE>>>>

(* C2, amended: with threshold 50 the recognized sequence                   *)
(* [60, 40, 40, 55, 30] fires ThresholdCrossed exactly four times: false at *)
(* the initial 60 (the first reading of a session always fires, since       *)
(* last_below_threshold is unset), true at the first 40, false at 55, true  *)
(* at 30; nothing fires at the repeated 40.                                 *)
C2_FourEvents ==
    (Readings = <<Some(60), Some(40), Some(40), Some(55), Some(30)>> /\ Threshold50)
        => Trail("ThresholdCrossed") =
               <<<<1, FALSE>>, <<2, TRUE>>, <<4, FALSE>>, <<5, TRUE>>>>

C2_Witness ==
    /\ Readings = <<Some(60), Some(40), Some(40), Some(55), Some(30)>>
    /\ Threshold50
    /\ Len(OfType("ThresholdCrossed")) = 4

(* C3: in every finished cycle that recognized a number v, with             *)
(* below = (v < the snapshot's threshold), ThresholdCrossed(below) is       *)
(* emitted exactly when below differs from last_below_threshold, whether or *)
(* not EnergyChanged was emitted, and last_below_threshold is below         *)
(* afterwards; v equal to the threshold is not below.                       *)
C3_ThresholdEdge ==
    \A c \in 1..Len(hist) :
        LET h == hist[c] IN
        IsSome(h.reading) =>
            LET below == Val(h.reading) < h.thr IN
            /\ Val(h.reading) = h.thr => ~below
            /\ IF Some(below) # h.preB
               THEN Pay("ThresholdCrossed", c) = <<below>>
               ELSE Pay("ThresholdCrossed", c) = <<>>
            /\ h.postB = Some(below)

\* a threshold change alone: the reading of the previous cycle again, no
\* EnergyChanged, and a ThresholdCrossed; and a reading equal to its threshold
C3_Witness ==
    /\ \E c \in 2..Len(hist) :
          /\ IsSome(hist[c].reading)
          /\ hist[c].reading = hist[c - 1].reading
          /\ hist[c].thr # hist[c - 1].thr
          /\ Count("EnergyChanged", c) = 0
          /\ Count("ThresholdCrossed", c) = 1
    /\ \E c \in 1..Len(hist) : hist[c].reading = Some(hist[c].thr)

\* no two consecutive events of one type carry the same payload
Alternates(type) ==
    LET sel == OfType(type) IN
    \A i \in 1..(Len(sel) - 1) : sel[i].payload # sel[i + 1].payload

\* the last cycle before c that did not fail, 0 if there is none
PrevOk(c) ==
    IF \E p \in 1..(c - 1) : ~hist[p].failed
    THEN CHOOSE p \in 1..(c - 1) : ~hist[p].failed /\ \A q \in (p + 1)..(c - 1) : hist[q].failed
    ELSE 0

Repeats(c) ==
    /\ ~hist[c].failed
    /\ PrevOk(c) # 0
    /\ hist[c].reading = hist[PrevOk(c)].reading
    /\ hist[c].thr = hist[PrevOk(c)].thr
    /\ hist[c].mode = hist[PrevOk(c)].mode

(* C4: no two consecutive ThresholdCrossed events and no two consecutive    *)
(* EnergyChanged events carry the same payload, and a cycle whose reading,  *)
(* threshold and mode equal those of the previous successful cycle emits    *)
(* neither event.                                                           *)
C4_OnePerTransition ==
    /\ Alternates("ThresholdCrossed")
    /\ Alternates("EnergyChanged")
    /\ \A c \in 1..Len(hist) :
          Repeats(c) => Count("EnergyChanged", c) = 0 /\ Count("ThresholdCrossed", c) = 0

C4_Witness ==
    /\ Len(OfType("ThresholdCrossed")) >= 3
    /\ Len(OfType("EnergyChanged")) >= 3
    /\ \E c \in 1..Len(hist) : Repeats(c) /\ IsSome(hist[c].reading) /\ PrevOk(c) < c - 1

\* cycles a..b all took their snapshot in FILTERED mode
FilteredRun(a, b) == \A c \in a..b : hist[c].mode = FILTERED

(* C5: a successful FILTERED cycle emits ThresholdCrossed(true) exactly     *)
(* when last_below_threshold is not already true and leaves it true; a run  *)
(* of consecutive FILTERED cycles emits ThresholdCrossed at most once.      *)
C5_FilteredOnce ==
    /\ \A c \in 1..Len(hist) :
          LET h == hist[c] IN
          (h.mode = FILTERED /\ ~h.failed) =>
              /\ Pay("ThresholdCrossed", c) = IF h.preB # Some(TRUE) THEN <<TRUE>> ELSE <<>>
              /\ h.postB = Some(TRUE)
    /\ \A a \in 1..Len(hist) : \A b \in a..Len(hist) :
          FilteredRun(a, b) =>
              Cardinality({i \in 1..Len(events) :
                              /\ events[i].type = "ThresholdCrossed"
                              /\ events[i].cycle \in a..b}) <= 1

C5_Witness ==
    /\ Len(hist) >= 3
    /\ FilteredRun(1, 3)
    /\ \A c \in 1..3 : ~hist[c].failed
    /\ Count("ThresholdCrossed", 1) = 1

(* C6: a cycle whose capture fails emits exactly one RecoverableError and   *)
(* sleeps the fixed backoff of 1000 ms, whatever its polling interval.      *)
C6_Backoff ==
    \A c \in 1..Len(hist) :
        script[c].k = "grab_fail" =>
            /\ hist[c].failed
            /\ Count("RecoverableError", c) = 1
            /\ hist[c].sleep = Backoff

\* capture failures under both polling intervals
C6_Witness ==
    /\ \E c \in 1..Len(hist) : script[c].k = "grab_fail" /\ hist[c].poll = 250
    /\ Count("RecoverableError", Len(hist)) = 1

(* C7: the worker has left the loop only if a stop was requested; no        *)
(* failing cycle ends the loop.                                             *)
C7_OnlyStopEnds == pc = "done" => stopRequested /\ ~running

\* two failed cycles in a row, then a further cycle, and no stop
C7_Witness ==
    /\ ~stopRequested
    /\ \E c \in 1..(Len(hist) - 2) :
          hist[c].failed /\ hist[c + 1].failed /\ ~hist[c + 2].failed

\* what a cycle without a reading, an error or an event looks like
Quiet(c) ==
    LET h == hist[c] IN
    /\ h.reading = None
    /\ ~h.failed
    /\ Count("RecoverableError", c) = 0
    /\ h.sleep = h.poll
    /\ Count("EnergyChanged", c) = 0
    /\ Count("ThresholdCrossed", c) = 0
    /\ h.postE = h.preE
    /\ h.postB = h.preB

NotAllDecimal(t) == t = <<>> \/ \E i \in 1..Len(t) : ~IsDecimal(t[i])

\* the recognizer was called in cycle c, in NUMBER or IMAGE mode
Recognized(c) == hist[c].recognized = 1 /\ hist[c].mode \in {NUMBER, IMAGE}

(* C8, as claimed: when the recognizer call raises, or returns text that is *)
(* empty or not made only of decimal digits, the reading is None, nothing   *)
(* is emitted, the detector's state is unchanged and the cycle sleeps the   *)
(* polling interval.                                                        *)
C8_RawTextRoutine ==
    \A c \in 1..Len(hist) :
        (Recognized(c) /\ (script[c].k = "ocr_raise" \/ NotAllDecimal(script[c].t)))
            => Quiet(c)

(* C8, amended: when the recognizer call raises, or returns text that,      *)
(* once leading and trailing whitespace is stripped, is empty or not made   *)
(* only of decimal digits, the reading is None, no RecoverableError,        *)
(* EnergyChanged or ThresholdCrossed is emitted, last_energy and            *)
(* last_below_threshold are unchanged and the cycle sleeps the polling      *)
(* interval.                                                                *)
C8_StrippedTextRoutine ==
    \A c \in 1..Len(hist) :
        (Recognized(c) /\ (script[c].k = "ocr_raise" \/ NotAllDecimal(strip(script[c].t))))
            => Quiet(c)

\* a raising recognizer and a digit that int() rejects, each after a reading
C8_Witness ==
    \E c \in 2..Len(hist) :
        /\ Recognized(c)
        /\ hist[c].preE # NoEnergy
        /\ script[c].k = "ocr_raise" \/ script[c].t = <<"sup2">>

ColorFields == {"r", "g", "b", "tolerance", "skew"}

(* C9: every value a cycle uses after its snapshot equals the value the     *)
(* field had when the snapshot was taken: the colour fields the pipeline    *)
(* reads are those of the snapshot, the region it grabs is the snapshot's.  *)
C9_SnapshotIsolated ==
    \A c \in 1..Len(hist) :
        LET h == hist[c] IN
        /\ IsSome(h.grabbed) => Val(h.grabbed) = h.region
        /\ \A f \in ColorFields :
              IsSome(h.used[f]) => Val(h.used[f]) = Val(h.snapColor)[f]

\* the regions and colours the controller ever sets as a whole
WholeRegions == {DefaultRegion} \cup SelectedRegions

WholeColors == {[r |-> DefaultColor.r, g |-> DefaultColor.g, b |-> DefaultColor.b]}
                   \cup PickedColors

\* the colour cycle c classified with is one the controller set as a whole
WholeColorUsed(c) ==
    LET u == hist[c].used IN
    (IsSome(u.r) /\ IsSome(u.g) /\ IsSome(u.b)) =>
        [r |-> Val(u.r), g |-> Val(u.g), b |-> Val(u.b)] \in WholeColors

\* the region cycle c grabbed is one the controller set as a whole
WholeRegionUsed(c) == IsSome(hist[c].grabbed) => Val(hist[c].grabbed) \in WholeRegions

(* C10: the region and the colour a cycle works with are each entirely the  *)
(* values before a controller update or entirely the values after it,       *)
(* never a mix of the two.                                                  *)
C10_NoPartialUpdate == \A c \in 1..Len(hist) : WholeRegionUsed(c) /\ WholeColorUsed(c)

----------------------------------------------------------------------------
(* Stopping.                                                               *)

\* every capture call of the script returns
CallsReturn == \A i \in 1..Len(script) : script[i].k # "grab_hang"

\* cycle c emitted nothing
Silent(c) == \A i \in 1..Len(events) : events[i].cycle # c

(* C11: once stop() has been called on a started monitor, at any point      *)
(* after start(), the worker eventually leaves the loop (given that the     *)
(* capture calls return), and no cycle that begins after the stop request   *)
(* emits an event.                                                          *)
C11_StopEndsSession ==
    /\ (stopRequested /\ CallsReturn) ~> (pc = "done")
    /\ [](\A c \in 1..Len(hist) : hist[c].afterStop => Silent(c))

\* the stop request arrived while cycle c was in flight
StoppedInFlight(c) == hist[c].stopped /\ ~hist[c].afterStop

\* cycle c ran every stage: capture, classification, recognition (outside
\* FILTERED mode), detection with its events, and the sleep; or, failing, the
\* error event and the backoff
RanInFull(c) ==
    LET h == hist[c] IN
    /\ IsSome(h.grabbed)
    /\ IF h.failed
       THEN Count("RecoverableError", c) = 1 /\ h.sleep = Backoff
       ELSE /\ IsSome(h.mask)
            /\ h.mode # FILTERED => h.recognized = 1 /\ h.reading = Recognize(script[c])
            /\ h.mode = FILTERED => Count("FilteredFrame", c) = 1
            /\ h.postE = IF IsSome(h.reading) THEN Val(h.reading) ELSE h.preE
            /\ Count("EnergyChanged", c) = IF h.postE # h.preE THEN 1 ELSE 0
            /\ Count("ThresholdCrossed", c) = IF h.postB # h.preB THEN 1 ELSE 0
            /\ IsSome(h.reading) => h.postB = Some(Below(Val(h.reading), h.thr))
            /\ h.sleep = h.poll

\* the worker leaves the loop only from the loop test, with the flag clear
LeavesAtLoopTest == (pc' = "done" /\ pc # "done") => (pc = "while" /\ ~running)

(* C12: a stop request that arrives while a cycle is in flight does not     *)
(* preempt it: the cycle runs its capture, classification, detection,       *)
(* emission and sleep in full, no further cycle follows it, and the worker  *)
(* leaves the loop only at the loop test that starts the next cycle.        *)
C12_StopBetweenCycles ==
    /\ [](\A c \in 1..Len(hist) :
            StoppedInFlight(c) =>
                RanInFull(c) /\ c = Len(hist) /\ pc \in {"while", "done"})
    /\ [][LeavesAtLoopTest]_vars

\* a stop that arrived before the grab of a cycle that went on to emit
C12_Witness ==
    /\ pc = "done"
    /\ \E c \in 1..Len(hist) :
          /\ StoppedInFlight(c)
          /\ ~hist[c].failed
          /\ Count("EnergyChanged", c) = 1
          /\ Count("ThresholdCrossed", c) = 1

(* C13: the controller's stop always returns: once it waits for the worker  *)
(* it is back in its event loop after at most the 2000 ms of the wait, with *)
(* the monitor dropped, even if the worker never leaves a capture call.     *)
C13_StopReturns ==
    (ctl = "wait") ~> (ctl = "idle" /\ stopRequested /\ arg.waited <= WaitTimeout)

\* the stop has returned and the worker is still inside its grab
C13_Witness ==
    /\ pc = "hung"
    /\ ctl = "idle"
    /\ stopRequested
    /\ arg.waited = WaitTimeout

----------------------------------------------------------------------------
(* Sessions.                                                               *)

\* the thread of the current monitor is inside a cycle of the poll loop
InCycle == pc \notin {"run", "while", "done"}

(* C14: at every moment at most one worker is inside a cycle of the poll    *)
(* loop: whatever the controller's starts and stops, the thread of an       *)
(* earlier monitor is never running a cycle while the thread of the current *)
(* monitor runs one.                                                        *)
C14_SingleWorker == \A o \in orphans : ~(InCycle /\ o.pc = "cycle")

\* cycle c is the first finished cycle of its session
FirstOfSession(c) == \A p \in 1..(c - 1) : hist[p].session # hist[c].session

\* cycle c is the first of its session to recognize a number
FirstReading(c) ==
    /\ IsSome(hist[c].reading)
    /\ \A p \in 1..(c - 1) : hist[p].session = hist[c].session => hist[p].reading = None

\* the payloads of the events of one type that cycle c emitted in its own
\* session (a cycle cut short by a restart leaves its number to the next one)
PayIn(type, c) ==
    LET sel == SelectSeq(events, LAMBDA e : /\ e.type = type
                                           /\ e.cycle = c
                                           /\ e.session = hist[c].session)
    IN  [i \in 1..Len(sel) |-> Val(sel[i].payload)]

(* C18: every session starts with last_energy and last_below_threshold      *)
(* unset, and the first number recognized in a session emits EnergyChanged, *)
(* whatever the previous session last saw.                                  *)
C18_StatePerSession ==
    \A c \in 1..Len(hist) :
        /\ FirstOfSession(c) => hist[c].preE = NoEnergy /\ hist[c].preB = None
        /\ FirstReading(c) => PayIn("EnergyChanged", c) = <<Val(hist[c].reading)>>

\* a second session whose first reading is the last value of the first session
C18_Witness ==
    \E c \in 2..Len(hist) :
        /\ hist[c].session = 2
        /\ hist[c - 1].session = 1
        /\ IsSome(hist[c].reading)
        /\ hist[c - 1].postE = Val(hist[c].reading)
        /\ PayIn("EnergyChanged", c) = <<hist[c - 1].postE>>

----------------------------------------------------------------------------
(* The stages of a cycle.                                                  *)

(* C15, as claimed: FilteredFrame is emitted exactly once in every cycle    *)
(* whose snapshot mode is FILTERED and never in a NUMBER or IMAGE cycle.    *)
C15_FrameEveryFilteredCycle ==
    \A c \in 1..Len(hist) :
        Count("FilteredFrame", c) = IF hist[c].mode = FILTERED THEN 1 ELSE 0

(* C15, amended: FilteredFrame is emitted exactly once in every FILTERED    *)
(* cycle whose capture and classification do not raise, not at all in a     *)
(* cycle that raises, and never in a NUMBER or IMAGE cycle.                 *)
C15_FrameEveryGoodFilteredCycle ==
    \A c \in 1..Len(hist) :
        Count("FilteredFrame", c) =
            IF hist[c].mode = FILTERED /\ ~hist[c].failed THEN 1 ELSE 0

\* a FILTERED cycle with its frame, a FILTERED cycle that failed, and a cycle
\* of another mode, in one run
C15_Witness ==
    /\ \E c \in 1..Len(hist) :
          hist[c].mode = FILTERED /\ ~hist[c].failed /\ Count("FilteredFrame", c) = 1
    /\ \E c \in 1..Len(hist) :
          hist[c].mode = FILTERED /\ hist[c].failed /\ Count("FilteredFrame", c) = 0
    /\ \E c \in 1..Len(hist) : hist[c].mode # FILTERED /\ ~hist[c].failed

\* what a FILTERED cycle does about recognition: nothing
NoRecognition(c) ==
    LET h == hist[c] IN
    /\ h.recognized = 0
    /\ h.recognizedOn = None
    /\ h.mask # Some("hard")
    /\ h.reading = None
    /\ Count("EnergyChanged", c) = 0
    /\ h.postE = h.preE

\* one call of the recognizer, on the hard mask
RecognizedOnceOnHard(c) ==
    hist[c].recognized = 1 /\ hist[c].recognizedOn = Some("hard")

(* C16, as claimed: a FILTERED cycle never calls the recognizer, reads      *)
(* None, emits no EnergyChanged and leaves last_energy alone; every NUMBER  *)
(* or IMAGE cycle calls the recognizer exactly once, on the hard mask.      *)
C16_RecognizerEveryNumberCycle ==
    \A c \in 1..Len(hist) :
        IF hist[c].mode = FILTERED THEN NoRecognition(c) ELSE RecognizedOnceOnHard(c)

(* C16, amended: a FILTERED cycle never calls the recognizer, reads None,   *)
(* emits no EnergyChanged and leaves last_energy alone; a NUMBER or IMAGE   *)
(* cycle whose capture and classification do not raise calls the recognizer *)
(* exactly once, on the hard mask, and one that raises never calls it.      *)
C16_RecognizerOnHardMask ==
    \A c \in 1..Len(hist) :
        IF hist[c].mode = FILTERED THEN NoRecognition(c)
        ELSE IF hist[c].failed THEN hist[c].recognized = 0
        ELSE RecognizedOnceOnHard(c)

\* a FILTERED cycle with a soft mask, a NUMBER or IMAGE cycle with a reading, and
\* a NUMBER or IMAGE cycle that failed, in one run
C16_Witness ==
    /\ \E c \in 1..Len(hist) : hist[c].mode = FILTERED /\ hist[c].mask = Some("soft")
    /\ \E c \in 1..Len(hist) :
          hist[c].mode # FILTERED /\ IsSome(hist[c].reading) /\ hist[c].recognized = 1
    /\ \E c \in 1..Len(hist) : hist[c].mode # FILTERED /\ hist[c].failed

\* a region and a tolerance the pipeline may be given
ValidRegion(rg) == rg.width > 0 /\ rg.height > 0

ValidTolerance(tol) == tol >= 0

(* C17: whenever the worker runs a cycle, the region of its snapshot has    *)
(* width > 0 and height > 0 and the tolerance it classifies with is >= 0,   *)
(* whatever configuration was loaded from the file.                         *)
C17_ValidSnapshot ==
    /\ IsSome(cur.grabbed) => ValidRegion(Val(cur.grabbed))
    /\ IsSome(cur.used.tolerance) => ValidTolerance(Val(cur.used.tolerance))

\* the stage a position of the worker belongs to: 1 snapshot, 2 capture,
\* 3 classification, 4 recognition, 5 to 7 the three emissions, 8 sleep
Stage(p) ==
    CASE p \in {"lock", "rd_region", "rd_threshold", "rd_polling", "rd_color",
                "rd_mode", "unlock"} -> 1
      [] p = "grab" -> 2
      [] p \in {"pre_skew", "pre_r", "pre_g", "pre_b", "pre_tol"} -> 3
      [] p = "ocr" -> 4
      [] p = "emit_filtered" -> 5
      [] p = "energy" -> 6
      [] p = "threshold" -> 7
      [] p \in {"sleep", "except", "backoff"} -> 8
      [] OTHER -> 0

\* the place of an event in a cycle
Rank(type) ==
    CASE type = "FilteredFrame" -> 5
      [] type = "EnergyChanged" -> 6
      [] type = "ThresholdCrossed" -> 7
      [] OTHER -> 8

\* the events of one cycle come in the order FilteredFrame, EnergyChanged,
\* ThresholdCrossed, each at most once
EventsInOrder ==
    \A i \in 1..Len(events) : \A j \in (i + 1)..Len(events) :
        events[i].cycle = events[j].cycle => Rank(events[i].type) < Rank(events[j].type)

\* what has happened in the cycle in flight happened in the order of the stages:
\* no capture without the snapshot, no mask without the capture, no recognition
\* without the mask, no detector event without all of them
StagesInOrder ==
    Stage(pc) > 0 =>
        /\ IsSome(cur.grabbed) => IsSome(cur.snapColor) /\ Stage(pc) >= 2
        /\ IsSome(cur.mask) => IsSome(cur.grabbed) /\ Stage(pc) >= 3
        /\ cur.recognized > 0 => IsSome(cur.mask) /\ Stage(pc) >= 4
        /\ (\E i \in 1..Len(events) : events[i].cycle = Cycle /\ Rank(events[i].type) < 8)
              => IsSome(cur.mask) /\ (alert_mode # FILTERED => cur.recognized = 1)

\* one step of the worker: within a cycle never back to an earlier stage, one
\* event at most, emitted at its own stage and before the sleep ends the cycle
StepInOrder ==
    /\ (pc' # pc /\ Stage(pc) > 0 /\ Stage(pc') > 0) => Stage(pc') >= Stage(pc)
    /\ (pc' # pc /\ Stage(pc') = 1 /\ Stage(pc) # 1) => pc = "while"
    /\ events' # events =>
          /\ Len(events') = Len(events) + 1
          /\ Rank(events'[Len(events')].type) = Stage(pc)
          /\ hist' = hist

(* C19: each cycle is strictly sequential: the snapshot is read before the  *)
(* capture, the capture precedes classification and recognition, and the    *)
(* events are emitted after them and before the sleep, in the order         *)
(* FilteredFrame, EnergyChanged, ThresholdCrossed.                          *)
C19_Sequential == [](EventsInOrder /\ StagesInOrder) /\ [][StepInOrder]_vars

\* a finished cycle with a frame and a ThresholdCrossed, and one with an
\* EnergyChanged and a ThresholdCrossed
C19_Witness ==
    /\ \E c \in 1..Len(hist) :
          Count("FilteredFrame", c) = 1 /\ Count("ThresholdCrossed", c) = 1
    /\ \E c \in 1..Len(hist) :
          Count("EnergyChanged", c) = 1 /\ Count("ThresholdCrossed", c) = 1

\* cycle c raised an exception that nothing inside the cycle handles
Unhandled(c) == script[c].k \in {"grab_fail", "pre_fail"}

(* C20: every cycle that completes without an unhandled exception sleeps    *)
(* once, for the polling interval of its own snapshot; every cycle that     *)
(* raises one sleeps the backoff of 1000 ms instead.                        *)
C20_SleepOfSnapshot ==
    \A c \in 1..Len(hist) :
        /\ hist[c].failed = Unhandled(c)
        /\ hist[c].sleep = IF Unhandled(c) THEN Backoff ELSE hist[c].poll

\* a cycle that slept its snapshot's interval after the configuration's had
\* changed, and a failed cycle
C20_Witness ==
    /\ \E c \in 1..Len(hist) :
          ~hist[c].failed /\ hist[c].livePoll # hist[c].poll /\ hist[c].sleep = hist[c].poll
    /\ \E c \in 1..Len(hist) : hist[c].failed /\ hist[c].sleep = Backoff

----------------------------------------------------------------------------
(* The image functions.                                                    *)

\* the calls of function f made so far
CallsOf(f) == { i \in 1..Len(img.calls) : img.calls[i].f = f }

\* the buffer a call segments: the skew-corrected buffer
Corrected(c) == IF c.tc.skew = 0 THEN c.on ELSE apply_skew(c.on, c.tc.skew)

Rows(im) == 0..(im.height - 1)

Cols(im) == 0..(im.width - 1)

Target(tc) == <<tc.r, tc.g, tc.b>>

\* every channel of p is within the tolerance of the target, bounds included
InBox(p, tc) == \A ch \in 1..3 : Abs(p[ch] - Target(tc)[ch]) <= tc.tolerance

\* C21: under the hard policy every pixel of the mask before scaling is 255 when
\* each channel of the corresponding pixel of the corrected buffer differs from
\* the target's by at most the tolerance, and 0 otherwise; it has no other value
C21_HardMaskBox ==
    \A i \in CallsOf("hard") :
        LET c == img.calls[i]
            b == Corrected(c)
        IN  /\ c.pre.width = b.width /\ c.pre.height = b.height
            /\ \A y \in Rows(b), x \in Cols(b) :
                   c.pre.px[y][x] = IF InBox(b.px[y][x], c.tc) THEN 255 ELSE 0

\* a matched pixel with a channel exactly the tolerance away, and an unmatched
\* pixel with a channel one further, in hard calls
C21_Witness ==
    /\ \E i \in CallsOf("hard") :
          LET c == img.calls[i] IN
          \E y \in Rows(c.pre), x \in Cols(c.pre), ch \in 1..3 :
              /\ c.pre.px[y][x] = 255
              /\ c.tc.tolerance > 0
              /\ Abs(Corrected(c).px[y][x][ch] - Target(c.tc)[ch]) = c.tc.tolerance
    /\ \E i \in CallsOf("hard") :
          LET c == img.calls[i] IN
          \E y \in Rows(c.pre), x \in Cols(c.pre), ch \in 1..3 :
              /\ c.pre.px[y][x] = 0
              /\ Abs(Corrected(c).px[y][x][ch] - Target(c.tc)[ch]) = c.tc.tolerance + 1

\* the pixels a hard call matched
Matched(c) == { <<x, y>> \in Cols(c.pre) \X Rows(c.pre) : c.pre.px[y][x] = 255 }

\* two hard calls on the same buffer and target, the second's tolerance no smaller
Widened(i, j) ==
    /\ i \in CallsOf("hard") /\ j \in CallsOf("hard")
    /\ img.calls[i].on = img.calls[j].on
    /\ img.calls[i].tc = [img.calls[j].tc EXCEPT !.tolerance = img.calls[i].tc.tolerance]
    /\ 0 <= img.calls[i].tc.tolerance
    /\ img.calls[i].tc.tolerance <= img.calls[j].tc.tolerance

\* C22: with the buffer and the target fixed, the pixels matched under the hard
\* policy at a tolerance are matched at every greater tolerance
C22_MonotoneTolerance ==
    \A i, j \in 1..Len(img.calls) :
        Widened(i, j) => Matched(img.calls[i]) \subseteq Matched(img.calls[j])

\* the greater tolerance matches a pixel the smaller one does not
C22_Witness ==
    \E i, j \in 1..Len(img.calls) :
        /\ Widened(i, j)
        /\ Matched(img.calls[i]) # {}
        /\ Matched(img.calls[i]) # Matched(img.calls[j])

\* C24: the skew correction with skew 0 returns the input buffer itself
C24_SkewZeroIdentity ==
    \A i \in CallsOf("skew") :
        img.calls[i].tc.skew = 0 => img.calls[i].res = img.calls[i].on

\* the skew correction has been called with skew 0
C24_Witness ==
    \E i \in CallsOf("skew") :
        img.calls[i].tc.skew = 0 /\ img.calls[i].res.id = "screenshot"

\* calls i and j are of the same policy with the same buffer and target colour
SameCall(i, j) ==
    /\ img.calls[i].f \in {"hard", "soft"}
    /\ img.calls[i].f = img.calls[j].f
    /\ img.calls[i].on = img.calls[j].on
    /\ img.calls[i].tc = img.calls[j].tc

\* equal calls give equal masks, whatever the MonitorState and the cycles between
Deterministic ==
    \A i, j \in 1..Len(img.calls) :
        SameCall(i, j) => /\ img.calls[i].res = img.calls[j].res
                          /\ img.calls[i].pre = img.calls[j].pre

\* the buffer is, after every call, what was passed to it
InputKept == \A i \in 1..Len(img.calls) : img.calls[i].on = img.buf

\* a step that is a call leaves the MonitorState as it was
CallKeepsState == img' # img => UNCHANGED <<last_energy, last_below_threshold>>

Ceil(a, b) == (a + b - 1) \div b

\* C25: for a non-zero skew the corrected buffer is as wide as the input and
\* higher by ceil(|skew| * width)
C25_SkewedSize ==
    \A i \in CallsOf("skew") :
        LET c == img.calls[i] IN
        c.tc.skew # 0 =>
            /\ c.res.width = c.on.width
            /\ c.res.height = c.on.height + Ceil(Abs(c.tc.skew) * c.on.width, 100)

\* the input row the claim names for output pixel (x, y), at pixel centres and
\* in 200ths of a pixel: row - skew * (width - col) for a positive skew,
\* row - skew * col for a negative one
ClaimedY(im, skew, x, y) ==
    IF skew > 0 THEN 100 * (2 * y + 1) - skew * (2 * im.width - (2 * x + 1))
    ELSE 100 * (2 * y + 1) - skew * (2 * x + 1)

\* output pixel (x, y) of call c is the input sampled at column x and the
\* claimed row, black outside the input
SampledAsClaimed(c, x, y) ==
    c.res.px[y][x] = Bilinear(c.on, x, ClaimedY(c.on, c.tc.skew, x, y))

\* C26: the skew correction samples, for output pixel (row, col), input column
\* col and input row row - skew * (width - col) when skew > 0, row - skew * col
\* when skew < 0, and fills what falls outside the input with black
C26_SkewMapping ==
    \A i \in CallsOf("skew") :
        LET c == img.calls[i] IN
        c.tc.skew # 0 => \A y \in Rows(c.res), x \in Cols(c.res) : SampledAsClaimed(c, x, y)

\* the pixels of value v of an L image
PixelsAt(im, v) == { <<x, y>> \in Cols(im) \X Rows(im) : im.px[y][x] = v }

\* the white pixels of a captured buffer
WhiteOf(im) == { <<x, y>> \in Cols(im) \X Rows(im) : im.px[y][x] = White }

\* a hard call of the literal case: a black buffer with a white rectangle,
\* target (255, 255, 255), tolerance 30, skew 0
LiteralCase(c) ==
    /\ c.f = "hard"
    /\ c.on \in LiteralBuffers
    /\ c.tc = [r |-> 255, g |-> 255, b |-> 255, tolerance |-> 30, skew |-> 0]

\* C27: in the literal case the resulting mask is twice as wide and twice as
\* high as the buffer, and its pixels of value 255 number four times the
\* rectangle's pixels
C27_LiteralCount ==
    \A i \in 1..Len(img.calls) :
        LET c == img.calls[i] IN
        LiteralCase(c) =>
            /\ c.res.width = 2 * c.on.width /\ c.res.height = 2 * c.on.height
            /\ Cardinality(PixelsAt(c.res, 255)) = 4 * Cardinality(WhiteOf(c.on))

----------------------------------------------------------------------------
(* Failures, the backoff and the MonitorState.                             *)

\* the MonitorState left by the last cycle before c that did not fail, the
\* initial one if there is none
StateBefore(c) ==
    IF PrevOk(c) = 0 THEN [e |-> NoEnergy, b |-> None]
    ELSE [e |-> hist[PrevOk(c)].postE, b |-> hist[PrevOk(c)].postB]

\* the EnergyChanged payloads a cycle with h's snapshot and reading emits from
\* MonitorState st
EnergyFrom(st, h) ==
    IF IsSome(h.reading) /\ Val(h.reading) # st.e THEN <<Val(h.reading)>> ELSE <<>>

\* the ThresholdCrossed payloads it emits
ThresholdFrom(st, h) ==
    IF IsSome(h.reading)
    THEN (IF Some(Val(h.reading) < h.thr) # st.b THEN <<Val(h.reading) < h.thr>> ELSE <<>>)
    ELSE IF h.mode = FILTERED /\ st.b # Some(TRUE) THEN <<TRUE>> ELSE <<>>

(* C28: a cycle that fails with an unhandled exception during capture or    *)
(* classification leaves last_energy and last_below_threshold as they were  *)
(* and emits no FilteredFrame, EnergyChanged or ThresholdCrossed; the       *)
(* events of the first successful cycle after failed ones are those it      *)
(* would emit had the failed cycles not happened.                           *)
C28_FailureKeepsState ==
    \A c \in 1..Len(hist) :
        LET h == hist[c] IN
        IF h.failed
        THEN /\ h.postE = h.preE /\ h.postB = h.preB
             /\ Count("FilteredFrame", c) = 0
             /\ Count("EnergyChanged", c) = 0
             /\ Count("ThresholdCrossed", c) = 0
        ELSE /\ Pay("EnergyChanged", c) = EnergyFrom(StateBefore(c), h)
             /\ Pay("ThresholdCrossed", c) = ThresholdFrom(StateBefore(c), h)
             /\ Count("FilteredFrame", c) = IF h.mode = FILTERED THEN 1 ELSE 0

\* a successful cycle right after a failed one, with a successful cycle before
\* it: one that repeats the earlier reading and emits nothing
C28_Witness ==
    \E c \in 3..Len(hist) :
        /\ ~hist[c].failed /\ hist[c - 1].failed /\ PrevOk(c) # 0
        /\ hist[PrevOk(c)].postE # NoEnergy
        /\ hist[c].reading = Some(hist[PrevOk(c)].postE)
        /\ Count("EnergyChanged", c) = 0

\* C29: the backoff of 1000 ms is strictly longer than the polling interval of
\* every configuration the worker runs with, whether the controller wrote it
\* or the configuration file held it
C29_BackoffLonger == \A c \in 1..Len(hist) : Backoff > hist[c].poll

\* the events of one type of cycle c's session up to c, in order
Upto(type, c) ==
    SelectSeq(events, LAMBDA e : e.type = type /\ e.session = hist[c].session /\ e.cycle <= c)

\* the payload of the last of them, d if there is none
LastPay(type, c, d) ==
    IF Upto(type, c) = <<>> THEN d ELSE Upto(type, c)[Len(Upto(type, c))].payload

(* C30: after every cycle last_below_threshold is the payload of the most    *)
(* recent ThresholdCrossed of the session, unset if there is none, and      *)
(* last_energy that of the most recent EnergyChanged, -1 if there is none;  *)
(* a cycle that emits no such event leaves the field as it was.             *)
C30_StateMirrorsEvents ==
    \A c \in 1..Len(hist) :
        LET h == hist[c] IN
        /\ h.postB = LastPay("ThresholdCrossed", c, None)
        /\ Some(h.postE) = LastPay("EnergyChanged", c, Some(NoEnergy))
        /\ Count("ThresholdCrossed", c) = 0 => h.postB = h.preB
        /\ Count("EnergyChanged", c) = 0 => h.postE = h.preE

\* a cycle that emits EnergyChanged and no ThresholdCrossed after an earlier
\* ThresholdCrossed, and a cycle that emits neither after both
C30_Witness ==
    /\ \E c \in 2..Len(hist) :
          /\ Count("EnergyChanged", c) = 1 /\ Count("ThresholdCrossed", c) = 0
          /\ hist[c].postB # None
    /\ \E c \in 2..Len(hist) :
          /\ Count("EnergyChanged", c) = 0 /\ Count("ThresholdCrossed", c) = 0
          /\ hist[c].postB # None /\ hist[c].postE # NoEnergy

(* C31: every event is justified by the cycle that emitted it:             *)
(* ThresholdCrossed(false) comes only from a cycle that recognized a       *)
(* number not below the threshold of that cycle's snapshot,                *)
(* ThresholdCrossed(true) only from a cycle that recognized a number below *)
(* it or whose snapshot mode is FILTERED, and EnergyChanged(v) only from a *)
(* cycle that recognized v, a non-negative integer.                        *)
C31_EventsJustified ==
    \A i \in 1..Len(events) :
        LET e == events[i] IN
        e.cycle <= Len(hist) =>
            LET h == hist[e.cycle] IN
            /\ e.type = "ThresholdCrossed" /\ e.payload = Some(FALSE)
                  => IsSome(h.reading) /\ Val(h.reading) >= h.thr
            /\ e.type = "ThresholdCrossed" /\ e.payload = Some(TRUE)
                  => \/ IsSome(h.reading) /\ Val(h.reading) < h.thr
                     \/ h.mode = FILTERED
            /\ e.type = "EnergyChanged"
                  => /\ IsSome(h.reading) /\ e.payload = h.reading
                     /\ Val(e.payload) \in Nat

\* a run with all three: false from a reading at or above the threshold, true
\* from a reading below it, true from a FILTERED cycle that recognized nothing
C31_Witness ==
    /\ \E i \in 1..Len(events) :
          /\ events[i].type = "ThresholdCrossed" /\ events[i].payload = Some(FALSE)
          /\ events[i].cycle <= Len(hist)
    /\ \E i \in 1..Len(events) :
          /\ events[i].type = "ThresholdCrossed" /\ events[i].payload = Some(TRUE)
          /\ events[i].cycle <= Len(hist) /\ IsSome(hist[events[i].cycle].reading)
    /\ \E i \in 1..Len(events) :
          /\ events[i].type = "ThresholdCrossed" /\ events[i].payload = Some(TRUE)
          /\ events[i].cycle <= Len(hist) /\ ~IsSome(hist[events[i].cycle].reading)
    /\ \E i \in 1..Len(events) : events[i].type = "EnergyChanged" /\ events[i].cycle <= Len(hist)

\* the positions between the setValue calls of the region handler
RegionSteps == {"rs_y", "rs_w", "rs_h", "rs_end"}

(* C38: once the handler of a selected or adjusted region has completed,   *)
(* the stored capture region is the selected one, and every configuration  *)
(* the handler passes to the worker before its last holds the old region   *)
(* or the selected one.                                                    *)
C38_RegionStored ==
    /\ ctl = "idle" /\ arg.old # None => config.capture_region = arg.region
    /\ ctl \in {"emit", "unlock"} /\ arg.ret \in RegionSteps
          => Some(config.capture_region) \in {arg.old, Some(arg.region)}

\* the statements of run between lock() and unlock(), capture.py:43-48
SnapshotSteps == {"rd_region", "rd_threshold", "rd_polling", "rd_color", "rd_mode", "unlock"}

(* C32: the worker holds the mutex only while it copies the five snapshot  *)
(* fields: wherever it holds it, it is between its lock and its unlock,    *)
(* never capturing, recognizing, emitting, sleeping, handling an exception *)
(* or locking again; every lock of the worker is followed by its unlock;   *)
(* and an update_config of the controller always returns.                  *)
C32_MutexDiscipline ==
    /\ [](mutex = "worker" <=> pc \in SnapshotSteps)
    /\ (mutex = "worker") ~> (mutex # "worker" /\ pc = "grab")
    /\ (ctl = "emit") ~> (ctl = "idle")

\* update_config waits for the mutex while the worker holds it in the cycle
\* after one that failed
C32_Witness ==
    /\ ctl = "emit" /\ ~stopRequested
    /\ mutex = "worker"
    /\ \E c \in 1..Len(hist) : hist[c].failed

\* every signal emitted so far has had its slot run, and no handler is running
AllDelivered == ctl = "idle" /\ overlay.delivered = Len(events)

(* C33: once the stop has returned the overlay is hidden and stays hidden  *)
(* until the next start or test alert, whatever signal of the stopped      *)
(* worker is delivered after it.                                           *)
C33_HiddenAfterStop ==
    stopRequested /\ ctl = "idle" /\ overlay.timers = 0 => ~overlay.visible

\* the ThresholdCrossed events of the session that is monitoring
SessionCrossings ==
    SelectSeq(events, LAMBDA e : e.type = "ThresholdCrossed" /\ e.session = session)

(* C34: while a session is monitoring, with every event delivered and no   *)
(* test alert's timer pending, the overlay is visible exactly if the       *)
(* session's most recent ThresholdCrossed payload is true.                 *)
C34_OverlayFollowsThreshold ==
    ~stopRequested /\ AllDelivered /\ overlay.timers = 0 /\ SessionCrossings # <<>>
        => (overlay.visible <=> Val(SessionCrossings[Len(SessionCrossings)].payload))

(* C35: in NUMBER mode, with every event delivered, a visible overlay      *)
(* displays the payload of the most recent EnergyChanged event.            *)
C35_NumberDisplayed ==
    LET changes == OfType("EnergyChanged") IN
    config.alert_mode = NUMBER /\ overlay.visible /\ AllDelivered /\ changes # <<>>
        => overlay.text = str(Val(changes[Len(changes)].payload))

\* what the next launch reads from the file (main.py:17, 31)
Resumes == load_config(disk).config.monitoring_active

(* C36: after the cleanup the file holds monitoring_active as it was when   *)
(* the application began to exit: true if monitoring was active, so that   *)
(* the next launch resumes it, false if the user had stopped it.           *)
C36_FlagPersisted == ctl = "exited" => Resumes = Val(arg.exit)

\* the calls of one configuration function
FileCalls(f) == {i \in 1..Len(io) : io[i].f = f}

(* C37: load_config returns an AppConfig for every state of the file and   *)
(* raises nothing to its caller.                                           *)
C37_LoadTotal == \A i \in FileCalls("load_config") : io[i].out.raised = ""

\* the dictionary has both the legacy keys and the keys that replaced them
HasBoth(d) ==
    /\ TypeOf(d) = "dict"
    /\ {"alert_position", "alert_size", "image_position", "image_size"} \subseteq DOMAIN d.dict

(* C39: from_dict(to_dict(c)) is c, field for field, and on a dictionary   *)
(* with both the legacy keys and image_position, image_size the image-mode *)
(* values are those of image_position and image_size.                      *)
C39_RoundTrip ==
    \A i \in FileCalls("from_dict") :
        /\ \A c \in FileConfigs :
               io[i].in = to_dict(c)
                   => /\ io[i].out.raised = ""
                      /\ \A f \in DOMAIN c : io[i].out.config[f] = c[f]
                      /\ DOMAIN io[i].out.config = DOMAIN c
        /\ HasBoth(io[i].in) /\ io[i].out.raised = ""
               => /\ io[i].out.config.image_position = New(DefaultPosition, io[i].in.dict.image_position)
                  /\ io[i].out.config.image_size = New(DefaultSize, io[i].in.dict.image_size)

\* the configuration with every field changed has gone through both functions,
\* and a dictionary with both kinds of keys, of different values, through
\* from_dict
C39_Witness ==
    /\ \E i \in FileCalls("from_dict") : io[i].in = to_dict(ChangedConfig)
    /\ \E i \in FileCalls("from_dict") :
          /\ HasBoth(io[i].in)
          /\ io[i].in.dict.alert_position # io[i].in.dict.image_position
          /\ io[i].in.dict.alert_size # io[i].in.dict.image_size
          /\ io[i].out.raised = ""

====
